---- MODULE Spec2Model ----
\* A model of guillermo/gogo: the Project facade (Struct, Method, Function,
\* Variable, Constant, Type), the struct merge of parser.go and the apply
\* protocol of Project.applyChanges over the fs.FS storage contract.
\*
\* File bytes are modelled by what go/parser reads from them: the package
\* clause and the sequence of top-level declarations.  go/parser and go/format
\* are external to the repository; two files are the same bytes exactly when
\* they have the same package clause and the same declarations.
EXTENDS Integers, Sequences, FiniteSets, TLC

\* ---------------------------------------------------------------- bounds
\* longest EnsureFields list of a regenerated struct spec
MaxEnsure == 2
\* calls per behaviour of the facade
MaxCalls == 1
\* applications of one struct spec per behaviour of the regeneration
MaxRegens == 2
\* Template transforms in a chain
MaxTransforms == 2
\* Add and Remove calls of one OpenStruct modifier
MaxModifierCalls == 3
\* the longest content, in lines, handed to generateDiff
MaxLines == 6
\* calls made on the Files of the File API, and Files made by Clone
MaxFileCalls == 3
MaxFiles == 3
\* calls made on an astm Code
MaxAstmCalls == 2

\* ------------------------------------------------------------ vocabulary
FieldNameSet == {"a", "b"}
TypeSet == {"int", "string"}
AnnotationSet == {"", "j"}
ExistingTagSet == {"", "^k^"}
\* "^" stands for the backtick that delimits a Go raw string
Backticked == {"^j^", "^k^"}
PackageNames == {"", "models"}
StructName == "S"

\* ------------------------------------------------------------ sequences
RECURSIVE Flatten(_)
Flatten(ss) == IF ss = <<>> THEN <<>> ELSE Head(ss) \o Flatten(Tail(ss))

Range(s) == {s[i] : i \in DOMAIN s}

NoDup(s) == \A i, j \in DOMAIN s : i # j => s[i] # s[j]

SeqsUpTo(S, n) == UNION {[1..k -> S] : k \in 0..n}

\* --------------------------------------------------------- file contents
\* len(content) == 0
EmptyBytes == [pkg |-> "", decls |-> <<>>]

\* what a failed WriteFile may leave behind
PartialBytes == [pkg |-> "<partial>", decls |-> <<>>]

\* parser.ParseFile succeeds: the source has a package clause
Parses(content) == content.pkg # "" /\ content # PartialBytes

StructSpec(name, fields) ==
  [name |-> name, kind |-> "struct", fields |-> fields, def |-> ""]

OtherSpec(name, kind, def) ==
  [name |-> name, kind |-> kind, fields |-> <<>>, def |-> def]

GenDecl(tok, specs) == [tok |-> tok, specs |-> specs]

FuncDecl(name, recv, def) ==
  [tok |-> "func", specs |-> <<[name |-> name, kind |-> recv, fields |-> <<>>, def |-> def]>>]

\* ------------------------------------------------- parser.go: the struct merge
\* the annotation is wrapped in backticks unless it already starts with one
WithBackticks(annotation) ==
  IF annotation \in Backticked THEN annotation ELSE "^" \o annotation \o "^"

\* parseTypeExpr followed by go/format: a type without dot, bracket or star is an
\* identifier and prints as written
parseTypeExpr(typeStr) == typeStr

\* the ast.Field built for an EnsureFields entry that is not in existingFields
NewField(ensureField) ==
  [names |-> <<ensureField.Name>>,
   type |-> parseTypeExpr(ensureField.Type),
   tag |-> IF ensureField.Annotation # "" THEN WithBackticks(ensureField.Annotation) ELSE ""]

\* the update of an ast.Field found in existingFields
UpdateField(existing, ensureField) ==
  [existing EXCEPT
     !.type = parseTypeExpr(ensureField.Type),
     !.tag = IF ensureField.Annotation # "" THEN WithBackticks(ensureField.Annotation) ELSE @]

\* map[string]*ast.Field: a later field overwrites an earlier one of the same name
existingFieldsMap(list) ==
  [n \in Range(Flatten([i \in DOMAIN list |-> list[i].names])) |->
     CHOOSE i \in DOMAIN list :
       /\ n \in Range(list[i].names)
       /\ \A j \in DOMAIN list : n \in Range(list[j].names) => j <= i]

shouldDelete(field, deleteFields) ==
  \E i \in DOMAIN field.names : field.names[i] \in deleteFields

KeepField(field, deleteFields) == ~shouldDelete(field, deleteFields)

\* the merge without the clearing branch of parser.go:234-239
RemoveFields_NeverClears(list, s) ==
  IF s.DeleteFields # {}
    THEN SelectSeq(list, LAMBDA f : KeepField(f, s.DeleteFields))
    ELSE list

\* parser.go:200-239
RemoveFields(list, s) ==
  IF s.DeleteFields # {}
    THEN SelectSeq(list, LAMBDA f : KeepField(f, s.DeleteFields))
    ELSE IF ~s.PreserveExisting THEN <<>> ELSE list

\* a new field put in front of the list instead of appended
RECURSIVE EnsureLoop_Prepends(_, _, _)
EnsureLoop_Prepends(list, existingFields, ensure) ==
  IF ensure = <<>> THEN list
  ELSE LET e == Head(ensure) IN
       IF e.Name \in DOMAIN existingFields
         THEN EnsureLoop_Prepends([list EXCEPT ![existingFields[e.Name]] = UpdateField(@, e)],
                                  existingFields, Tail(ensure))
         ELSE EnsureLoop_Prepends(<<NewField(e)>> \o list,
                                  [n \in DOMAIN existingFields |-> existingFields[n] + 1],
                                  Tail(ensure))

\* parser.go:241-278; existingFields is not extended by the appends
RECURSIVE EnsureLoop(_, _, _)
EnsureLoop(list, existingFields, ensure) ==
  IF ensure = <<>> THEN list
  ELSE LET e == Head(ensure) IN
       IF e.Name \in DOMAIN existingFields
         THEN EnsureLoop([list EXCEPT ![existingFields[e.Name]] = UpdateField(@, e)],
                         existingFields, Tail(ensure))
         ELSE EnsureLoop(Append(list, NewField(e)), existingFields, Tail(ensure))

MergeFields(list, s) ==
  LET kept == RemoveFields(list, s)
  IN EnsureLoop(kept, existingFieldsMap(kept), s.EnsureFields)

IsStructNamed(spec, name) == spec.kind = "struct" /\ spec.name = name

\* the merge without the name test of parser.go:183
modifyStruct_EverySpec(genDecl, s) ==
  [genDecl EXCEPT !.specs =
     [i \in DOMAIN genDecl.specs |->
        IF genDecl.specs[i].kind = "struct"
          THEN [genDecl.specs[i] EXCEPT !.fields = MergeFields(@, s)]
          ELSE genDecl.specs[i]]]

modifyStruct(genDecl, s) ==
  [genDecl EXCEPT !.specs =
     [i \in DOMAIN genDecl.specs |->
        IF IsStructNamed(genDecl.specs[i], s.Name)
          THEN [genDecl.specs[i] EXCEPT !.fields = MergeFields(@, s)]
          ELSE genDecl.specs[i]]]

DeclHasStruct(decl, name) ==
  decl.tok = "type" /\ \E i \in DOMAIN decl.specs : IsStructNamed(decl.specs[i], name)

\* index of the first declaration holding the struct, 0 for nil
findOrCreateStruct(decls, name) ==
  IF \E i \in DOMAIN decls : DeclHasStruct(decls[i], name)
    THEN CHOOSE i \in DOMAIN decls :
           /\ DeclHasStruct(decls[i], name)
           /\ \A j \in DOMAIN decls : DeclHasStruct(decls[j], name) => i <= j
    ELSE 0

createStructDecl(s) ==
  GenDecl("type", <<StructSpec(s.Name, [i \in DOMAIN s.EnsureFields |-> NewField(s.EnsureFields[i])])>>)

\* a new file whose package clause is always main
createNewFileWithStruct_AlwaysMain(s, packageName) ==
  [err |-> FALSE, bytes |-> [pkg |-> "main", decls |-> <<createStructDecl(s)>>]]

createNewFileWithStruct(s, packageName) ==
  [err |-> FALSE,
   bytes |-> [pkg |-> IF packageName = "" THEN "main" ELSE packageName,
              decls |-> <<createStructDecl(s)>>]]

modifyExistingFile(content, s) ==
  IF ~Parses(content) THEN [err |-> TRUE, bytes |-> EmptyBytes]
  ELSE LET at == findOrCreateStruct(content.decls, s.Name) IN
       [err |-> FALSE,
        bytes |-> IF at = 0
                    THEN [content EXCEPT !.decls = Append(@, createStructDecl(s))]
                    ELSE [content EXCEPT !.decls[at] = modifyStruct(@, s)]]

modifyStructInFile(content, s, defaultPackage) ==
  IF content = EmptyBytes
    THEN createNewFileWithStruct(s, defaultPackage)
    ELSE modifyExistingFile(content, s)

\* parser.go:13-46; a line of Content is its whitespace-separated parts and
\* the text from its first backtick on
parseFieldsString(content) ==
  LET usable == SelectSeq(content, LAMBDA line : Len(line.parts) >= 2)
  IN [i \in DOMAIN usable |->
        [Name |-> usable[i].parts[1], Type |-> usable[i].parts[2],
         Annotation |-> usable[i].annotation]]

\* ------------------------------------ parser.go: the other declaration kinds
\* the declarations go/parser reads from "package tmp" followed by raw Content
ContentDecls(content) == content

DeclsOfTok(decls, tok) == SelectSeq(decls, LAMBDA d : d.tok = tok)

\* createVariableDeclaration, createConstantDeclaration, createTypeDeclaration
createValueDeclaration(tok, item) ==
  GenDecl(tok, <<OtherSpec(item.Name, tok, item.Type)>>)

ItemDecls(tok, items) == [i \in DOMAIN items |-> createValueDeclaration(tok, items[i])]

\* createFunctionDeclaration / createMethodDeclaration and the Content form:
\* one FuncDecl named opts.Name, with the receiver type for a method
SignatureOf(opts) ==
  IF opts.Content # <<>> THEN opts.Content[1] ELSE opts.Body

createFuncDecl(opts) ==
  FuncDecl(opts.Name, IF opts.kind = "Method" THEN opts.ReceiverType ELSE "func", SignatureOf(opts))

Tok(kind) ==
  CASE kind = "Variable" -> "var"
    [] kind = "Constant" -> "const"
    [] kind = "Type" -> "type"
    [] OTHER -> "func"

\* createNewFileWithMethod/Function/Variable/Constant/Type
createNewFileWith(opts, packageName) ==
  [err |-> FALSE,
   bytes |-> [pkg |-> IF packageName = "" THEN "main" ELSE packageName,
              decls |-> IF opts.kind \in {"Method", "Function"}
                          THEN <<createFuncDecl(opts)>>
                          ELSE IF opts.Content # <<>>
                                 THEN ContentDecls(opts.Content)
                                 ELSE ItemDecls(Tok(opts.kind), opts.Items)]]


\* a function or method of the name already declared replaced by the new one
modifyExistingFileFor_Replaces(content, opts) ==
  IF ~Parses(content) THEN [err |-> TRUE, bytes |-> EmptyBytes]
  ELSE [err |-> FALSE,
        bytes |-> [content EXCEPT !.decls =
                     IF opts.kind \in {"Method", "Function"}
                       THEN SelectSeq(@, LAMBDA d : d.tok # "func" \/ d.specs[1].name # opts.Name)
                              \o <<createFuncDecl(opts)>>
                       ELSE @ \o (IF opts.Content # <<>>
                                    THEN DeclsOfTok(ContentDecls(opts.Content), Tok(opts.kind))
                                    ELSE ItemDecls(Tok(opts.kind), opts.Items))]]

\* modifyExistingFileForMethod/Function/Variable/Constant/Type: the new
\* declarations are appended to file.Decls
modifyExistingFileFor(content, opts) ==
  IF ~Parses(content) THEN [err |-> TRUE, bytes |-> EmptyBytes]
  ELSE [err |-> FALSE,
        bytes |-> [content EXCEPT !.decls =
                     @ \o (IF opts.kind \in {"Method", "Function"}
                             THEN <<createFuncDecl(opts)>>
                             ELSE IF opts.Content # <<>>
                                    THEN DeclsOfTok(ContentDecls(opts.Content), Tok(opts.kind))
                                    ELSE ItemDecls(Tok(opts.kind), opts.Items))]]

\* modifyMethodInFile, modifyFunctionInFile, modifyVariableInFile,
\* modifyConstantInFile, modifyTypeInFile
modifyDeclInFile(content, opts, defaultPackage) ==
  IF content = EmptyBytes
    THEN createNewFileWith(opts, defaultPackage)
    ELSE modifyExistingFileFor(content, opts)

\* ------------------------------------------- Project: validation of the options
hasStructuredParams(opts) ==
  Len(opts.Items) > 0 \/ opts.ReturnType # "" \/ opts.Body # ""

HasStructured(opts) ==
  IF opts.kind \in {"Method", "Function"} THEN hasStructuredParams(opts) ELSE Len(opts.Items) > 0

\* the validation without the test that the two forms exclude each other
ValidationError_BothAllowed(opts) ==
  \/ ~HasStructured(opts) /\ opts.Content = <<>>
  \/ opts.Filename = ""
  \/ opts.kind \in {"Struct", "Method", "Function"} /\ opts.Name = ""
  \/ opts.kind = "Method" /\ opts.ReceiverType = ""

\* the checks each of Struct, Method, Function, Variable, Constant and Type
\* makes before it touches storage
ValidationError(opts) ==
  \/ HasStructured(opts) /\ opts.Content # <<>>
  \/ ~HasStructured(opts) /\ opts.Content = <<>>
  \/ opts.Filename = ""
  \/ opts.kind \in {"Struct", "Method", "Function"} /\ opts.Name = ""
  \/ opts.kind = "Method" /\ opts.ReceiverType = ""

\* Project.Struct, part_003:115-136
structDefOf(opts) ==
  IF opts.Content # <<>>
    THEN [Name |-> opts.Name, EnsureFields |-> parseFieldsString(opts.Content),
          DeleteFields |-> {}, PreserveExisting |-> TRUE]
    ELSE [Name |-> opts.Name, EnsureFields |-> opts.Items,
          DeleteFields |-> opts.DeleteFields, PreserveExisting |-> opts.PreserveExisting]

modifyInFile(content, opts, defaultPackage) ==
  IF opts.kind = "Struct"
    THEN modifyStructInFile(content, structDefOf(opts), defaultPackage)
    ELSE modifyDeclInFile(content, opts, defaultPackage)

\* ------------------------------------------------------------ fs.FS storage
NoFile == [exists |-> FALSE, bytes |-> EmptyBytes]

FileOf(bytes) == [exists |-> TRUE, bytes |-> bytes]

Filenames == {"user.go", "m/user.go"}

\* filepath.Dir
Dir(filename) == IF filename = "m/user.go" THEN "m" ELSE "."

backupPath(filename) == filename \o ".backup"

\* the names TempFile(dir, ".gogo-*.go") may hand out
TempNames(dir) == {dir \o "/.gogo-1.go", dir \o "/.gogo-2.go"}

OtherPath == "other.go"

Paths ==
  Filenames \cup {backupPath(f) : f \in Filenames}
            \cup UNION {TempNames(Dir(f)) : f \in Filenames} \cup {OtherPath}

Rename(files, oldpath, newpath) ==
  [files EXCEPT ![newpath] = files[oldpath], ![oldpath] = NoFile]

Remove(files, path) == [files EXCEPT ![path] = NoFile]

WriteFile(files, path, data) == [files EXCEPT ![path] = FileOf(data)]

\* ConflictAccept, ConflictReject; ConflictAsk answers either way
ConflictAccept == TRUE
ConflictReject == FALSE
ConflictAnswers == {ConflictAccept, ConflictReject}

\* ------------------------------------------------------------------ state
VARIABLES
  fs,                  \* storage: path -> [exists, bytes]
  dirs,                \* the directories storage holds
  initialPackageName,  \* Options.InitialPackageName
  target,              \* the file the caller generates into
  pc,                  \* position inside the running call, "idle" between calls
  call,                \* the options of the running (or last) call
  oldContent,          \* applyChanges arguments
  newContent,
  fileExists,
  tempPath,
  ret,                 \* "nil" or "error" once the outcome is decided
  info,                \* the ChangeInfo handed to the conflict function
  answer,              \* what the conflict function returned: "none", "accept", "reject"
  pre,                 \* storage when the call started
  log,                 \* storage calls and conflict calls issued by the call
  failed,              \* the storage calls of this call that returned an error
  ncalls,              \* calls started so far
  objects,             \* the parsed files (*ast.File) allocated so far
  templates,           \* the Templates made so far: file name -> parsed file
  tcall,               \* the last Template transform: receiver, arguments, outcome
  objectsBefore,       \* the parsed files as they were when that transform began
  structFields,        \* StructType.Fields.List of the struct of the old File API
  openStruct,          \* the Struct value OpenStruct hands to the modifier
  modifierCalls,       \* OpenStruct and the calls its modifier has made, with their results
  oldLines,  \* generateDiff: strings.Split(oldContent), <<>> before the call
  newLines,  \* strings.Split(newContent)
  diffOut, \* the lines of the diff returned, <<>> before the call
  idents,  \* the *ast.Ident nodes allocated so far: Name and whether Obj is a function
  astFiles,  \* the Files of the File API: trees over the identifier nodes
  fileCall,  \* the last call on a File: receiver, arguments, outcome
  identsBefore,  \* the identifier nodes as they were when that call began
  astFilesBefore, \* the Files as they were when that call began
  code,  \* astm: the parsed file of the Code, <<>> before Parse
  codeBefore,  \* the file as it was when the last astm call began
  astmCall  \* the last astm call: arguments and error

vars == <<fs, dirs, initialPackageName, target, pc, call, oldContent, newContent,
          fileExists, tempPath, ret, info, answer, pre, log, failed, ncalls,
          objects, templates, tcall, objectsBefore,
          structFields, openStruct, modifierCalls,
              oldLines, newLines, diffOut,
              idents, astFiles, fileCall, identsBefore, astFilesBefore,
              code, codeBefore, astmCall>>

\* package template and the File API are not touched by the Project calls
TemplateFrame == UNCHANGED <<objects, templates, tcall, objectsBefore,
                             structFields, openStruct, modifierCalls,
              oldLines, newLines, diffOut,
              idents, astFiles, fileCall, identsBefore, astFilesBefore,
              code, codeBefore, astmCall>>

Opts(kind, filename, name, recv, items, returnType, body, content, delete, preserve) ==
  [kind |-> kind, Filename |-> filename, Name |-> name, ReceiverType |-> recv,
   Items |-> items, ReturnType |-> returnType, Body |-> body, Content |-> content,
   DeleteFields |-> delete, PreserveExisting |-> preserve]

NoOpts == Opts("none", "", "", "", <<>>, "", "", <<>>, {}, FALSE)

NoInfo == [Action |-> "none", FileName |-> "", OldContent |-> EmptyBytes, NewContent |-> EmptyBytes]

\* the comparison left out
NoChanges_Never(exists, old, new) == FALSE

\* part_003:157: "Check if there are actual changes"
NoChanges(exists, old, new) == exists /\ old = new

\* ------------------------------------------------- Project.Struct and siblings
\* part_003:96-164 (and :167-400): validate, Stat, ReadFile, modify, compare,
\* then hand over to applyChanges
Begin(opts, statOk, readOk) ==
  /\ pc = "idle"
  /\ call' = opts
  /\ pre' = fs
  /\ ncalls' = ncalls + 1
  /\ info' = NoInfo
  /\ answer' = "none"
  /\ tempPath' = ""
  /\ UNCHANGED <<fs, dirs, initialPackageName, target>>
  /\ TemplateFrame
  /\ IF ValidationError(opts)
       THEN /\ pc' = "idle" /\ ret' = "error" /\ log' = <<>> /\ failed' = {}
            /\ oldContent' = EmptyBytes /\ newContent' = EmptyBytes /\ fileExists' = FALSE
       ELSE LET exists == statOk /\ fs[opts.Filename].exists
                old == IF exists THEN fs[opts.Filename].bytes ELSE EmptyBytes
            IN \E res \in {modifyInFile(old, opts, initialPackageName)} :
               /\ fileExists' = exists
               /\ oldContent' = old
               /\ log' = IF exists THEN <<"Stat", "ReadFile">> ELSE <<"Stat">>
               /\ failed' = (IF statOk THEN {} ELSE {"Stat"})
                              \cup (IF exists /\ ~readOk THEN {"ReadFile"} ELSE {})
               /\ IF exists /\ ~readOk
                    THEN pc' = "idle" /\ ret' = "error" /\ newContent' = EmptyBytes
                    ELSE IF res.err
                      THEN pc' = "idle" /\ ret' = "error" /\ newContent' = EmptyBytes
                      ELSE /\ newContent' = res.bytes
                           /\ IF NoChanges(exists, old, res.bytes)
                                THEN pc' = "idle" /\ ret' = "nil"
                                ELSE /\ ret' = "none"
                                     /\ pc' = IF Dir(opts.Filename) \notin {"", "."}
                                                THEN "mkdir" ELSE "temp"

\* ------------------------------------------------------ Project.applyChanges
Step(to, op, ok) ==
  /\ pc' = to
  /\ log' = Append(log, op)
  /\ failed' = IF ok THEN failed ELSE failed \cup {op}

Frame == UNCHANGED <<initialPackageName, target, call, oldContent, newContent,
                     fileExists, pre, ncalls,
                     objects, templates, tcall, objectsBefore,
                     structFields, openStruct, modifierCalls,
              oldLines, newLines, diffOut,
              idents, astFiles, fileCall, identsBefore, astFilesBefore,
              code, codeBefore, astmCall>>

Quiet == UNCHANGED <<info, answer>>

\* part_003:404-410
MkdirAll ==
  /\ pc = "mkdir"
  /\ \E ok \in BOOLEAN :
       /\ Step(IF ok THEN "temp" ELSE "idle", "MkdirAll", ok)
       /\ dirs' = IF ok THEN dirs \cup {Dir(call.Filename)} ELSE dirs
       /\ ret' = IF ok THEN ret ELSE "error"
  /\ UNCHANGED <<fs, tempPath>>
  /\ Quiet
  /\ Frame


\* the temp file handed to the conflict function before it is written
TempFile_SkipsWrite ==
  /\ pc = "temp"
  /\ \/ \E t \in TempNames(Dir(call.Filename)) :
          /\ ~fs[t].exists
          /\ fs' = WriteFile(fs, t, EmptyBytes)
          /\ tempPath' = t
          /\ Step("conflict", "TempFile", TRUE)
          /\ UNCHANGED ret
     \/ /\ Step("idle", "TempFile", FALSE)
        /\ ret' = "error"
        /\ UNCHANGED <<fs, tempPath>>
  /\ UNCHANGED dirs
  /\ Quiet
  /\ Frame

\* part_003:412-418
TempFile ==
  /\ pc = "temp"
  /\ \/ \E t \in TempNames(Dir(call.Filename)) :
          /\ ~fs[t].exists
          /\ fs' = WriteFile(fs, t, EmptyBytes)
          /\ tempPath' = t
          /\ Step("write", "TempFile", TRUE)
          /\ UNCHANGED ret
     \/ /\ Step("idle", "TempFile", FALSE)
        /\ ret' = "error"
        /\ UNCHANGED <<fs, tempPath>>
  /\ UNCHANGED dirs
  /\ Quiet
  /\ Frame

\* the temp file written with the old content
WriteTemp_WritesOld ==
  /\ pc = "write"
  /\ \/ /\ fs' = WriteFile(fs, tempPath, oldContent)
        /\ Step("conflict", "WriteFile", TRUE)
        /\ UNCHANGED ret
     \/ /\ \E left \in {fs[tempPath].bytes, PartialBytes} :
             fs' = WriteFile(fs, tempPath, left)
        /\ Step("rmtemp", "WriteFile", FALSE)
        /\ ret' = "error"
  /\ UNCHANGED <<dirs, tempPath>>
  /\ Quiet
  /\ Frame

\* part_003:420-424; a failed write may have written part of the data
WriteTemp ==
  /\ pc = "write"
  /\ \/ /\ fs' = WriteFile(fs, tempPath, newContent)
        /\ Step("conflict", "WriteFile", TRUE)
        /\ UNCHANGED ret
     \/ /\ \E left \in {fs[tempPath].bytes, PartialBytes} :
             fs' = WriteFile(fs, tempPath, left)
        /\ Step("rmtemp", "WriteFile", FALSE)
        /\ ret' = "error"
  /\ UNCHANGED <<dirs, tempPath>>
  /\ Quiet
  /\ Frame

ChangeInfo ==
  [Action |-> IF fileExists THEN "modify" ELSE "create",
   FileName |-> call.Filename,
   OldContent |-> oldContent,
   NewContent |-> newContent]

\* the answer of the conflict function ignored
Conflict_IgnoresAnswer ==
  /\ pc = "conflict"
  /\ info' = ChangeInfo
  /\ \E accept \in ConflictAnswers :
       /\ Step(IF fileExists THEN "backup" ELSE "create", "Conflict", TRUE)
       /\ answer' = IF accept THEN "accept" ELSE "reject"
       /\ ret' = ret
  /\ UNCHANGED <<fs, dirs, tempPath>>
  /\ Frame

\* part_003:426-447
Conflict ==
  /\ pc = "conflict"
  /\ info' = ChangeInfo
  /\ \E accept \in ConflictAnswers :
       /\ Step(IF ~accept THEN "rmtemp" ELSE IF fileExists THEN "backup" ELSE "create",
               "Conflict", TRUE)
       /\ answer' = IF accept THEN "accept" ELSE "reject"
       /\ ret' = IF accept THEN ret ELSE "nil"
  /\ UNCHANGED <<fs, dirs, tempPath>>
  /\ Frame

\* part_003:452-456
BackupRename ==
  /\ pc = "backup"
  /\ \E ok \in {b \in BOOLEAN : b => fs[call.Filename].exists} :
       /\ fs' = IF ok THEN Rename(fs, call.Filename, backupPath(call.Filename)) ELSE fs
       /\ Step(IF ok THEN "apply" ELSE "rmtemp", "Rename:backup", ok)
       /\ ret' = IF ok THEN ret ELSE "error"
  /\ UNCHANGED <<dirs, tempPath>>
  /\ Quiet
  /\ Frame

\* part_003:458-459
ApplyRename ==
  /\ pc = "apply"
  /\ \E ok \in {b \in BOOLEAN : b => fs[tempPath].exists} :
       /\ fs' = IF ok THEN Rename(fs, tempPath, call.Filename) ELSE fs
       /\ Step(IF ok THEN "rmbackup" ELSE "restore", "Rename:apply", ok)
       /\ ret' = IF ok THEN "nil" ELSE "error"
  /\ UNCHANGED <<dirs, tempPath>>
  /\ Quiet
  /\ Frame

\* the backup not renamed back
RestoreRename_Dropped ==
  /\ pc = "restore"
  /\ fs' = fs
  /\ Step("rmtemp", "Rename:restore", TRUE)
  /\ UNCHANGED <<dirs, tempPath, ret>>
  /\ Quiet
  /\ Frame

\* part_003:460-461; the error of the restoring rename is dropped
RestoreRename ==
  /\ pc = "restore"
  /\ \E ok \in {b \in BOOLEAN : b => fs[backupPath(call.Filename)].exists} :
       /\ fs' = IF ok THEN Rename(fs, backupPath(call.Filename), call.Filename) ELSE fs
       /\ Step("rmtemp", "Rename:restore", ok)
  /\ UNCHANGED <<dirs, tempPath, ret>>
  /\ Quiet
  /\ Frame

\* part_003:466-467
RemoveBackup ==
  /\ pc = "rmbackup"
  /\ \E ok \in {b \in BOOLEAN : b => fs[backupPath(call.Filename)].exists} :
       /\ fs' = IF ok THEN Remove(fs, backupPath(call.Filename)) ELSE fs
       /\ Step("idle", "Remove:backup", ok)
  /\ UNCHANGED <<dirs, tempPath, ret>>
  /\ Quiet
  /\ Frame

\* part_003:469-474
CreateRename ==
  /\ pc = "create"
  /\ \E ok \in {b \in BOOLEAN : b => fs[tempPath].exists} :
       /\ fs' = IF ok THEN Rename(fs, tempPath, call.Filename) ELSE fs
       /\ Step(IF ok THEN "idle" ELSE "rmtemp", "Rename:create", ok)
       /\ ret' = IF ok THEN "nil" ELSE "error"
  /\ UNCHANGED <<dirs, tempPath>>
  /\ Quiet
  /\ Frame

\* the temp file left where it is
RemoveTemp_Skipped ==
  /\ pc = "rmtemp"
  /\ fs' = fs
  /\ Step("idle", "Remove:temp", TRUE)
  /\ UNCHANGED <<dirs, tempPath, ret>>
  /\ Quiet
  /\ Frame

\* part_003:422, :444, :454, :462, :471: p.fs.Remove(tempPath), result dropped
RemoveTemp ==
  /\ pc = "rmtemp"
  /\ \E ok \in {b \in BOOLEAN : b => fs[tempPath].exists} :
       /\ fs' = IF ok THEN Remove(fs, tempPath) ELSE fs
       /\ Step("idle", "Remove:temp", ok)
  /\ UNCHANGED <<dirs, tempPath, ret>>
  /\ Quiet
  /\ Frame

\* the same call run to its end on storage whose calls all succeed, with a
\* conflict function that accepts (part_003:96-164 and :403-477)
AcceptedRun(files, opts, defaultPackage) ==
  LET f == opts.Filename
      exists == files[f].exists
      old == IF exists THEN files[f].bytes ELSE EmptyBytes
      res == modifyInFile(old, opts, defaultPackage)
      t == CHOOSE p \in TempNames(Dir(f)) : ~files[p].exists
      written == WriteFile(WriteFile(files, t, EmptyBytes), t, res.bytes)
      reads == IF exists THEN <<"Stat", "ReadFile">> ELSE <<"Stat">>
      mk == IF Dir(f) \notin {"", "."} THEN <<"MkdirAll">> ELSE <<>>
      none == [fs |-> files, ret |-> "error", log |-> <<>>, old |-> EmptyBytes,
               new |-> EmptyBytes, exists |-> FALSE, temp |-> "", shown |-> FALSE]
  IN IF ValidationError(opts) THEN none
     ELSE IF res.err THEN [none EXCEPT !.log = reads, !.old = old, !.exists = exists]
     ELSE IF NoChanges(exists, old, res.bytes)
       THEN [none EXCEPT !.ret = "nil", !.log = reads, !.old = old, !.new = res.bytes,
                         !.exists = exists]
     ELSE [fs |-> IF exists
                    THEN Remove(Rename(Rename(written, f, backupPath(f)), t, f), backupPath(f))
                    ELSE Rename(written, t, f),
           ret |-> "nil",
           log |-> reads \o mk \o <<"TempFile", "WriteFile", "Conflict">>
                     \o (IF exists THEN <<"Rename:backup", "Rename:apply", "Remove:backup">>
                                   ELSE <<"Rename:create">>),
           old |-> old, new |-> res.bytes, exists |-> exists, temp |-> t, shown |-> TRUE]

\* ----------------------------------------------------------------- inputs
FieldSpec(n, t, a) == [Name |-> n, Type |-> t, Annotation |-> a]

FieldSpecs == {FieldSpec(n, t, a) : n \in FieldNameSet, t \in TypeSet, a \in AnnotationSet}

Line(parts, annotation) == [parts |-> parts, annotation |-> annotation]

\* raw Content of a struct: "a int", "b string `j`" and a line without a type
FieldContents ==
  {<<Line(<<"a", "int">>, "")>>,
   <<Line(<<"b", "string", "^j^">>, "^j^"), Line(<<"a">>, "")>>}

ExistingField(names, t, tag) == [names |-> names, type |-> t, tag |-> tag]

ExistingFieldSet ==
  {ExistingField(ns, t, tag) :
     ns \in {<<n>> : n \in FieldNameSet}
              \cup {p \in FieldNameSet \X FieldNameSet : p[1] # p[2]},
     t \in TypeSet, tag \in ExistingTagSet}

FieldNamesOf(list) == Flatten([i \in DOMAIN list |-> list[i].names])

\* the field lists of a struct that compiles: no name declared twice
ExistingFieldLists ==
  {l \in SeqsUpTo(ExistingFieldSet, Cardinality(FieldNameSet)) : NoDup(FieldNamesOf(l))}

funcG == FuncDecl("g", "func", "body")
methodG == FuncDecl("g", "*S", "body")
varV == GenDecl("var", <<OtherSpec("v", "var", "int")>>)
constC == GenDecl("const", <<OtherSpec("c", "const", "int")>>)
structT == StructSpec("T", <<ExistingField(<<"a">>, "int", "")>>)
aliasS == GenDecl("type", <<OtherSpec(StructName, "type", "int")>>)

Source(decls) == [pkg |-> "main", decls |-> decls]

\* a file without a package clause
Garbage == [pkg |-> "", decls |-> <<funcG>>]

\* files that declare the struct: alone, between other declarations, and
\* inside a grouped type declaration
FilesWithStruct ==
  UNION {{Source(<<GenDecl("type", <<StructSpec(StructName, l)>>)>>),
          Source(<<varV, GenDecl("type", <<structT, StructSpec(StructName, l)>>), funcG>>)} :
         l \in ExistingFieldLists}

FilesWithoutStruct ==
  {EmptyBytes, Garbage, Source(<<funcG, varV>>), Source(<<aliasS, funcG>>)}

RegenSpecs ==
  {Opts("Struct", "user.go", StructName, "", items, "", "", <<>>, del, keep) :
     items \in SeqsUpTo(FieldSpecs, MaxEnsure) \ {<<>>},
     del \in SUBSET FieldNameSet, keep \in BOOLEAN}
  \cup {Opts("Struct", "user.go", StructName, "", <<>>, "", "", c, {}, FALSE) : c \in FieldContents}

\* the calls of the facade
ProtoFieldLists ==
  {<<FieldSpec("a", "int", "")>>,
   <<FieldSpec("a", "string", "j"), FieldSpec("b", "int", "")>>}

StructCalls(f) ==
  {Opts("Struct", f, StructName, "", items, "", "", <<>>, del, keep) :
     items \in ProtoFieldLists, del \in {{}, {"a"}}, keep \in BOOLEAN}
  \cup {Opts("Struct", f, StructName, "", <<>>, "", "", c, {}, FALSE) : c \in FieldContents}
  \cup {Opts("Struct", "", StructName, "", <<FieldSpec("a", "int", "")>>, "", "", <<>>, {}, FALSE),
        Opts("Struct", f, "", "", <<FieldSpec("a", "int", "")>>, "", "", <<>>, {}, FALSE),
        Opts("Struct", f, StructName, "", <<>>, "", "", <<>>, {}, FALSE),
        Opts("Struct", f, StructName, "", <<FieldSpec("a", "int", "")>>, "", "",
             <<Line(<<"a", "int">>, "")>>, {}, FALSE)}

Param == [Name |-> "x", Type |-> "int"]

FuncCalls(kind, f, recv) ==
  {Opts(kind, f, "g", recv, <<Param>>, "int", "return x", <<>>, {}, FALSE),
   Opts(kind, f, "h", recv, <<>>, "", "", <<"() {}">>, {}, FALSE),
   Opts(kind, f, "h", recv, <<>>, "", "", <<>>, {}, FALSE),
   Opts(kind, f, "h", recv, <<>>, "int", "", <<"() {}">>, {}, FALSE),
   Opts(kind, f, "", recv, <<>>, "", "", <<"() {}">>, {}, FALSE),
   Opts(kind, "", "h", recv, <<>>, "", "", <<"() {}">>, {}, FALSE)}

MethodCalls(f) ==
  FuncCalls("Method", f, "*S")
    \cup {Opts("Method", f, "h", "", <<>>, "", "", <<"() {}">>, {}, FALSE)}

Item == [Name |-> "w", Type |-> "int"]

\* raw Content of Variable, Constant and Type: the declarations it spells
DeclCalls(kind, f) ==
  {Opts(kind, f, "", "", <<Item>>, "", "", <<>>, {}, FALSE),
   Opts(kind, f, "", "", <<>>, "", "", <<GenDecl(Tok(kind), <<OtherSpec("w", Tok(kind), "int")>>)>>, {}, FALSE),
   Opts(kind, f, "", "", <<>>, "", "", <<funcG>>, {}, FALSE),
   Opts(kind, f, "", "", <<>>, "", "", <<>>, {}, FALSE),
   Opts(kind, f, "", "", <<Item>>, "", "", <<funcG>>, {}, FALSE),
   Opts(kind, "", "", "", <<Item>>, "", "", <<>>, {}, FALSE)}

\* ------------------------------------------------------- the facade's calls
CanCall == pc = "idle" /\ ncalls < MaxCalls

\* Stat is called once the options are valid, ReadFile once Stat found the file
StatOutcomes(opts) == IF ValidationError(opts) THEN {TRUE} ELSE BOOLEAN
ReadOutcomes(opts, statOk) ==
  IF ~ValidationError(opts) /\ statOk /\ fs[opts.Filename].exists THEN BOOLEAN ELSE {TRUE}

Started(opts) ==
  \E statOk \in StatOutcomes(opts) : \E readOk \in ReadOutcomes(opts, statOk) :
    Begin(opts, statOk, readOk)

Struct == CanCall /\ \E o \in StructCalls(target) : Started(o)
Method == CanCall /\ \E o \in MethodCalls(target) : Started(o)
Function == CanCall /\ \E o \in FuncCalls("Function", target, "") : Started(o)
Variable == CanCall /\ \E o \in DeclCalls("Variable", target) : Started(o)
Constant == CanCall /\ \E o \in DeclCalls("Constant", target) : Started(o)
Type == CanCall /\ \E o \in DeclCalls("Type", target) : Started(o)

\* --------------------------------------------------------- specifications
OtherBytes == Source(<<constC>>)
StaleBytes == Source(<<varV>>)

Storage(f, file, backup) ==
  [p \in Paths |->
     IF p = f THEN file
     ELSE IF p = backupPath(f) THEN backup
     ELSE IF p = OtherPath THEN FileOf(OtherBytes)
     ELSE NoFile]

DirsOf(files) == {"."} \cup {Dir(p) : p \in {q \in Filenames : files[q].exists}}

ProtoFiles ==
  {NoFile, FileOf(EmptyBytes), FileOf(Garbage),
   FileOf(Source(<<GenDecl("type", <<StructSpec(StructName, <<ExistingField(<<"a">>, "int", "")>>)>>)>>)),
   FileOf(Source(<<funcG, methodG,
                   GenDecl("type", <<StructSpec(StructName,
                      <<ExistingField(<<"a">>, "int", ""), ExistingField(<<"b">>, "string", "^k^")>>)>>),
                   varV>>))}

\* the package name is read only when a file is synthesized
PackagesFor(file) ==
  IF file.exists /\ file.bytes # EmptyBytes THEN {"models"} ELSE PackageNames

\* no Template has been made
NoTransform == [op |-> "none", recv |-> 0, args |-> <<>>, err |-> FALSE, result |-> 0]

\* struct.go:76-82; no struct has been opened
NoStruct == [Name |-> "", Fields |-> <<>>]

NoFileOpen ==
  /\ structFields = <<>>
  /\ openStruct = NoStruct
  /\ modifierCalls = <<>>

NoTemplates ==
  /\ objects = <<>>
  /\ templates = <<>>
  /\ tcall = NoTransform
  /\ objectsBefore = <<>>


\* generateDiff has not been called
NoDiff ==
  /\ oldLines = <<>>
  /\ newLines = <<>>
  /\ diffOut = <<>>


NoFileCall == [op |-> "none", file |-> 0, args |-> <<>>, err |-> FALSE, result |-> 0]

\* no File has been parsed
NoFiles ==
  /\ idents = <<>>
  /\ astFiles = <<>>
  /\ fileCall = NoFileCall
  /\ identsBefore = <<>>
  /\ astFilesBefore = <<>>


NoAstmCall == [op |-> "none", args |-> <<>>, err |-> FALSE]

\* astm.Parse has not been called
NoCode ==
  /\ code = <<>>
  /\ codeBefore = <<>>
  /\ astmCall = NoAstmCall

Idle ==
  /\ pc = "idle"
  /\ call = NoOpts
  /\ oldContent = EmptyBytes
  /\ newContent = EmptyBytes
  /\ fileExists = FALSE
  /\ tempPath = ""
  /\ ret = "none"
  /\ info = NoInfo
  /\ answer = "none"
  /\ pre = fs
  /\ log = <<>>
  /\ failed = {}
  /\ ncalls = 0

Init ==
  /\ target \in Filenames
  /\ \E file \in ProtoFiles, backup \in {NoFile, FileOf(StaleBytes)} :
       /\ fs = Storage(target, file, backup)
       /\ initialPackageName \in PackagesFor(file)
  /\ dirs = DirsOf(fs)
  /\ Idle
  /\ NoCode
  /\ NoFiles
  /\ NoDiff
  /\ NoTemplates
  /\ NoFileOpen

Next ==
  \/ Struct
  \/ Method
  \/ Function
  \/ Variable
  \/ Constant
  \/ Type
  \/ MkdirAll
  \/ TempFile
  \/ WriteTemp
  \/ Conflict
  \/ BackupRename
  \/ ApplyRename
  \/ RestoreRename
  \/ RemoveBackup
  \/ CreateRename
  \/ RemoveTemp

Spec == Init /\ [][Next]_vars

\* Regeneration: one struct spec applied again and again to one file, on
\* storage whose calls succeed and with ConflictAccept
InitMerge ==
  /\ target = "user.go"
  /\ \E file \in {NoFile} \cup {FileOf(b) : b \in FilesWithStruct \cup FilesWithoutStruct} :
       /\ fs = Storage(target, file, NoFile)
       /\ initialPackageName \in PackagesFor(file)
  /\ dirs = DirsOf(fs)
  /\ Idle
  /\ NoCode
  /\ NoFiles
  /\ NoDiff
  /\ NoTemplates
  /\ NoFileOpen

Regenerate ==
  /\ pc = "idle"
  /\ ncalls < MaxRegens
  /\ \E o \in (IF ncalls = 0 THEN RegenSpecs ELSE {call}) :
       \E run \in {AcceptedRun(fs, o, initialPackageName)} :
       /\ call' = o
       /\ pre' = fs
       /\ fs' = run.fs
       /\ ret' = run.ret
       /\ log' = run.log
       /\ oldContent' = run.old
       /\ newContent' = run.new
       /\ fileExists' = run.exists
       /\ tempPath' = run.temp
       /\ info' = IF run.shown
                    THEN [Action |-> IF run.exists THEN "modify" ELSE "create",
                          FileName |-> o.Filename, OldContent |-> run.old, NewContent |-> run.new]
                    ELSE NoInfo
       /\ answer' = IF run.shown THEN "accept" ELSE "none"
  /\ dirs' = dirs \cup (IF "MkdirAll" \in Range(log') THEN {Dir(call'.Filename)} ELSE {})
  /\ ncalls' = ncalls + 1
  /\ UNCHANGED <<initialPackageName, target, pc, failed>>
  /\ TemplateFrame

NextMerge == Regenerate

SpecMerge == InitMerge /\ [][NextMerge]_vars


\* ====================================================== package template
\* A Template holds one parsed file per file name.  Parsed files are objects:
\* two Templates naming the same object share it.
TemplateFileNames == <<"a.go", "b.go">>

\* range over the map t.files visits the files in any order
FileOrders == {<<"a.go", "b.go">>, <<"b.go", "a.go">>}

\* expressions of a function body, by the identifiers they hold
Ident(name) == [e |-> "ident", x |-> "", name |-> name, keys |-> <<>>]
SelectorExpr(x, sel) == [e |-> "sel", x |-> x, name |-> sel, keys |-> <<>>]
CompositeLit(type, keys) == [e |-> "lit", x |-> "", name |-> type, keys |-> keys]

\* top-level declarations: struct and other types, functions and methods
\* (recv holds the receiver type), variables and constants
Decl(kind, name, recv, fields, params, type, body) ==
  [kind |-> kind, name |-> name, recv |-> recv, fields |-> fields,
   params |-> params, type |-> type, body |-> body]

StructDecl(name, fields) == Decl("struct", name, "", fields, <<>>, "", <<>>)
TypeDecl(name, def) == Decl("type", name, "", <<>>, <<>>, def, <<>>)
ValueDecl(kind, name, type) == Decl(kind, name, "", <<>>, <<>>, type, <<>>)
FuncNode(name, recv, params, result, body) == Decl("func", name, recv, <<>>, params, result, body)

ParsedFile(pkg, decls) == [pkg |-> pkg, decls |-> decls]

Files(heap, t) == [f \in Range(TemplateFileNames) |-> heap[t.files[f]]]

At(files, loc) == files[loc[1]].decls[loc[2]]

\* the declarations in the order a lookup visits them
Locs(files, order) ==
  Flatten([k \in DOMAIN order |->
             [i \in DOMAIN files[order[k]].decls |-> <<order[k], i>>]])

\* the first declaration a lookup accepts, <<>> for nil
First(hits) == IF hits = <<>> THEN <<>> ELSE hits[1]

findStruct(files, order, name) ==
  First(SelectSeq(Locs(files, order),
                  LAMBDA l : At(files, l).kind = "struct" /\ At(files, l).name = name))

findStructGenDecl(files, order, name) == findStruct(files, order, name)

findFunction(files, order, name) ==
  First(SelectSeq(Locs(files, order),
                  LAMBDA l : /\ At(files, l).kind = "func"
                             /\ At(files, l).recv = ""
                             /\ At(files, l).name = name))

findMethod(files, order, receiverType, methodName) ==
  First(SelectSeq(Locs(files, order),
                  LAMBDA l : /\ At(files, l).kind = "func"
                             /\ At(files, l).recv # ""
                             /\ At(files, l).name = methodName
                             /\ At(files, l).recv = receiverType))

findVariable(files, order, name) ==
  First(SelectSeq(Locs(files, order),
                  LAMBDA l : At(files, l).kind = "var" /\ At(files, l).name = name))

findConstant(files, order, name) ==
  First(SelectSeq(Locs(files, order),
                  LAMBDA l : At(files, l).kind = "const" /\ At(files, l).name = name))

findType(files, order, name) ==
  First(SelectSeq(Locs(files, order),
                  LAMBDA l : At(files, l).kind \in {"struct", "type"} /\ At(files, l).name = name))

NotFound == [err |-> TRUE]

\* template.go:91-120: one StructField per field name
ExtractStruct(files, order, name) ==
  LET loc == findStruct(files, order, name)
  IN IF loc = <<>> THEN NotFound
     ELSE [err |-> FALSE, Name |-> name,
           Fields |-> Flatten([i \in DOMAIN At(files, loc).fields |->
                        LET f == At(files, loc).fields[i]
                        IN [j \in DOMAIN f.names |->
                              [Name |-> f.names[j], Type |-> f.type, Annotation |-> f.tag]]])]

SignatureAt(files, loc, name) ==
  [err |-> FALSE, Name |-> name, ReceiverType |-> At(files, loc).recv,
   Parameters |-> At(files, loc).params, ReturnType |-> At(files, loc).type,
   Body |-> At(files, loc).body]

ExtractFunction(files, order, name) ==
  LET loc == findFunction(files, order, name)
  IN IF loc = <<>> THEN NotFound ELSE SignatureAt(files, loc, name)

ExtractMethod(files, order, receiverType, methodName) ==
  LET loc == findMethod(files, order, receiverType, methodName)
  IN IF loc = <<>> THEN NotFound ELSE SignatureAt(files, loc, methodName)

ValueAt(files, loc, name) ==
  [err |-> FALSE, Name |-> name, Type |-> At(files, loc).type, Fields |-> At(files, loc).fields]

ExtractVariable(files, order, name) ==
  LET loc == findVariable(files, order, name)
  IN IF loc = <<>> THEN NotFound ELSE ValueAt(files, loc, name)

ExtractConstant(files, order, name) ==
  LET loc == findConstant(files, order, name)
  IN IF loc = <<>> THEN NotFound ELSE ValueAt(files, loc, name)

ExtractType(files, order, name) ==
  LET loc == findType(files, order, name)
  IN IF loc = <<>> THEN NotFound ELSE ValueAt(files, loc, name)


\* ---------------------------------------------- internal.go: clone and rename
FileIndex(f) == CHOOSE k \in DOMAIN TemplateFileNames : TemplateFileNames[k] = f

\* every file shared with the receiver instead of printed and parsed again
cloneTemplate_Shared(heap, t) == [heap |-> heap, tpl |-> t]

\* internal.go:243-268: each file is printed and parsed again into a new
\* object; the declarations read back are the declarations printed
cloneTemplate(heap, t) ==
  [heap |-> heap \o [k \in DOMAIN TemplateFileNames |-> heap[t.files[TemplateFileNames[k]]]],
   tpl |-> [files |-> [f \in Range(TemplateFileNames) |-> Len(heap) + FileIndex(f)],
            pkgName |-> t.pkgName]]

ObjectsOf(t) == {t.files[f] : f \in Range(TemplateFileNames)}

Renamed(n, oldName, newName) == IF n = oldName THEN newName ELSE n

RenamedAll(names, oldName, newName) ==
  [i \in DOMAIN names |-> Renamed(names[i], oldName, newName)]

\* ast.Inspect reaches every *ast.Ident: the package clause, declared names,
\* receiver, field and parameter names, type names, and in bodies plain
\* identifiers, both sides of a selector, literal types and literal keys
renameInDecl(d, oldName, newName) ==
  [kind |-> d.kind,
   name |-> Renamed(d.name, oldName, newName),
   recv |-> Renamed(d.recv, oldName, newName),
   fields |-> [i \in DOMAIN d.fields |->
                 [names |-> RenamedAll(d.fields[i].names, oldName, newName),
                  type |-> Renamed(d.fields[i].type, oldName, newName),
                  tag |-> d.fields[i].tag]],
   params |-> [i \in DOMAIN d.params |->
                 [Name |-> Renamed(d.params[i].Name, oldName, newName),
                  Type |-> Renamed(d.params[i].Type, oldName, newName)]],
   type |-> Renamed(d.type, oldName, newName),
   body |-> [i \in DOMAIN d.body |->
               [e |-> d.body[i].e,
                x |-> Renamed(d.body[i].x, oldName, newName),
                name |-> Renamed(d.body[i].name, oldName, newName),
                keys |-> RenamedAll(d.body[i].keys, oldName, newName)]]]

\* internal.go:271-282
renameIdentifier(heap, t, oldName, newName) ==
  [k \in DOMAIN heap |->
     IF k \in ObjectsOf(t)
       THEN [pkg |-> Renamed(heap[k].pkg, oldName, newName),
             decls |-> [i \in DOMAIN heap[k].decls |->
                          renameInDecl(heap[k].decls[i], oldName, newName)]]
       ELSE heap[k]]

\* the field names of the struct spec and the Sel of every selector
renameFieldInDecl(d, structName, oldFieldName, newFieldName) ==
  [kind |-> d.kind, name |-> d.name, recv |-> d.recv,
   fields |-> IF d.kind = "struct" /\ d.name = structName
                THEN [i \in DOMAIN d.fields |->
                        [names |-> RenamedAll(d.fields[i].names, oldFieldName, newFieldName),
                         type |-> d.fields[i].type,
                         tag |-> d.fields[i].tag]]
                ELSE d.fields,
   params |-> d.params, type |-> d.type,
   body |-> [i \in DOMAIN d.body |->
               [e |-> d.body[i].e, x |-> d.body[i].x,
                name |-> IF d.body[i].e = "sel"
                           THEN Renamed(d.body[i].name, oldFieldName, newFieldName)
                           ELSE d.body[i].name,
                keys |-> d.body[i].keys]]]

\* internal.go:285-313
renameStructFieldIdentifier(heap, t, structName, oldFieldName, newFieldName) ==
  [k \in DOMAIN heap |->
     IF k \in ObjectsOf(t)
       THEN [pkg |-> heap[k].pkg,
             decls |-> [i \in DOMAIN heap[k].decls |->
                          renameFieldInDecl(heap[k].decls[i], structName,
                                            oldFieldName, newFieldName)]]
       ELSE heap[k]]

HasFieldNamed(d, name) ==
  \E i \in DOMAIN d.fields : name \in Range(d.fields[i].names)

\* the declaration at loc of template t replaced through its pointer
SetDecl(heap, t, loc, d) ==
  [i \in DOMAIN heap |->
     IF i = t.files[loc[1]]
       THEN [pkg |-> heap[i].pkg,
             decls |-> [j \in DOMAIN heap[i].decls |->
                          IF j = loc[2] THEN d ELSE heap[i].decls[j]]]
       ELSE heap[i]]

Failure(heap) == [err |-> TRUE, heap |-> heap, tpl |-> [files |-> <<>>, pkgName |-> ""]]

\* rename.go:12-25, :93-154: look the old name up, clone, rename every identifier
renameDeclared(heap, t, found, oldName, newName) ==
  IF ~found THEN Failure(heap)
  ELSE LET c == cloneTemplate(heap, t)
       IN [err |-> FALSE, heap |-> renameIdentifier(c.heap, c.tpl, oldName, newName),
           tpl |-> c.tpl]

\* rename.go:60-87: type and tag of the fields now named newField.Name
retypeField(d, newField) ==
  [d EXCEPT !.fields =
     [i \in DOMAIN d.fields |->
        IF newField.Name \in Range(d.fields[i].names)
          THEN [names |-> d.fields[i].names,
                type |-> IF newField.Type # ""
                           THEN parseTypeExpr(newField.Type) ELSE d.fields[i].type,
                tag |-> IF newField.Annotation # ""
                          THEN WithBackticks(newField.Annotation) ELSE d.fields[i].tag]
          ELSE d.fields[i]]]

\* rename.go:29-90; each lookup ranges over the files in an order of its own
renameStructField(heap, t, check, apply, structName, oldFieldName, newField) ==
  LET loc == findStruct(Files(heap, t), check, structName)
  IN IF loc = <<>> THEN Failure(heap)
     ELSE IF ~HasFieldNamed(At(Files(heap, t), loc), oldFieldName) THEN Failure(heap)
     ELSE LET c == cloneTemplate(heap, t)
              h == renameStructFieldIdentifier(c.heap, c.tpl, structName, oldFieldName,
                                               newField.Name)
              at == findStructGenDecl(Files(h, c.tpl), apply, structName)
          IN [err |-> FALSE,
              heap |-> IF at = <<>> THEN h
                       ELSE SetDecl(h, c.tpl, at, retypeField(At(Files(h, c.tpl), at), newField)),
              tpl |-> c.tpl]

\* the field appended without looking for one of that name
addStructField_Unchecked(heap, t, check, apply, structName, field) ==
  LET loc == findStructGenDecl(Files(heap, t), check, structName)
  IN IF loc = <<>> THEN Failure(heap)
     ELSE LET c == cloneTemplate(heap, t)
              at == findStructGenDecl(Files(c.heap, c.tpl), apply, structName)
          IN IF at = <<>> THEN Failure(heap)
             ELSE [err |-> FALSE,
                   heap |-> SetDecl(c.heap, c.tpl, at,
                              [At(Files(c.heap, c.tpl), at) EXCEPT
                                 !.fields = Append(@, NewField(field))]),
                   tpl |-> c.tpl]

\* part_005:12-70
addStructField(heap, t, check, apply, structName, field) ==
  LET loc == findStructGenDecl(Files(heap, t), check, structName)
  IN IF loc = <<>> THEN Failure(heap)
     ELSE IF HasFieldNamed(At(Files(heap, t), loc), field.Name) THEN Failure(heap)
     ELSE LET c == cloneTemplate(heap, t)
              at == findStructGenDecl(Files(c.heap, c.tpl), apply, structName)
          IN IF at = <<>> THEN Failure(heap)
             ELSE [err |-> FALSE,
                   heap |-> SetDecl(c.heap, c.tpl, at,
                              [At(Files(c.heap, c.tpl), at) EXCEPT
                                 !.fields = Append(@, NewField(field))]),
                   tpl |-> c.tpl]

\* part_005:73-135
removeStructField(heap, t, check, apply, structName, field) ==
  LET loc == findStructGenDecl(Files(heap, t), check, structName)
  IN IF loc = <<>> THEN Failure(heap)
     ELSE IF ~HasFieldNamed(At(Files(heap, t), loc), field.Name) THEN Failure(heap)
     ELSE LET c == cloneTemplate(heap, t)
              at == findStructGenDecl(Files(c.heap, c.tpl), apply, structName)
          IN IF at = <<>> THEN Failure(heap)
             ELSE [err |-> FALSE,
                   heap |-> SetDecl(c.heap, c.tpl, at,
                              [At(Files(c.heap, c.tpl), at) EXCEPT
                                 !.fields = SelectSeq(@, LAMBDA f : field.Name \notin Range(f.names))]),
                   tpl |-> c.tpl]


\* ------------------------------------------------- the Template transforms
ProjectFrame ==
  UNCHANGED <<fs, dirs, initialPackageName, target, pc, call, oldContent, newContent,
              fileExists, tempPath, ret, info, answer, pre, log, failed,
              structFields, openStruct, modifierCalls,
              oldLines, newLines, diffOut,
              idents, astFiles, fileCall, identsBefore, astFilesBefore,
              code, codeBefore, astmCall>>

CanTransform == pc = "idle" /\ templates # <<>> /\ ncalls < MaxTransforms

\* a transform returns (nil, error) or a new Template
Returns(r, op, args, out) ==
  /\ objectsBefore' = objects
  /\ ncalls' = ncalls + 1
  /\ IF out.err
       THEN /\ objects' = objects
            /\ templates' = templates
            /\ tcall' = [op |-> op, recv |-> r, args |-> args, err |-> TRUE, result |-> 0]
       ELSE /\ objects' = out.heap
            /\ templates' = IF out.tpl \in Range(templates)
                              THEN templates ELSE Append(templates, out.tpl)
            /\ tcall' = [op |-> op, recv |-> r, args |-> args, err |-> FALSE,
                         result |-> CHOOSE k \in DOMAIN templates' : templates'[k] = out.tpl]
  /\ ProjectFrame

StructNames == {"A", "T", "q"}
TypeNames == {"T", "A"}
FunctionNames == {"f", "m"}
VariableNames == {"v", "c"}
ConstantNames == {"c", "v"}
NewNames == {"B", "q"}
OldFieldNames == {"x", "q"}
NewFields ==
  {[Name |-> n, Type |-> t, Annotation |-> a] :
     n \in {"y", "z"}, t \in {"", "string"}, a \in {""}}
AddedFields == {[Name |-> n, Type |-> "int", Annotation |-> "j"] : n \in {"x", "z"}}
RemovedFields == {[Name |-> n, Type |-> "", Annotation |-> ""] : n \in {"x", "z"}}

RenameStruct ==
  /\ CanTransform
  /\ \E r \in DOMAIN templates, order \in FileOrders, oldName \in StructNames, newName \in NewNames :
       Returns(r, "RenameStruct", <<oldName, newName>>,
               renameDeclared(objects, templates[r],
                              findStruct(Files(objects, templates[r]), order, oldName) # <<>>,
                              oldName, newName))

RenameFunction ==
  /\ CanTransform
  /\ \E r \in DOMAIN templates, order \in FileOrders, oldName \in FunctionNames, newName \in NewNames :
       Returns(r, "RenameFunction", <<oldName, newName>>,
               renameDeclared(objects, templates[r],
                              findFunction(Files(objects, templates[r]), order, oldName) # <<>>,
                              oldName, newName))

RenameVariable ==
  /\ CanTransform
  /\ \E r \in DOMAIN templates, order \in FileOrders, oldName \in VariableNames, newName \in NewNames :
       Returns(r, "RenameVariable", <<oldName, newName>>,
               renameDeclared(objects, templates[r],
                              findVariable(Files(objects, templates[r]), order, oldName) # <<>>,
                              oldName, newName))

RenameConstant ==
  /\ CanTransform
  /\ \E r \in DOMAIN templates, order \in FileOrders, oldName \in ConstantNames, newName \in NewNames :
       Returns(r, "RenameConstant", <<oldName, newName>>,
               renameDeclared(objects, templates[r],
                              findConstant(Files(objects, templates[r]), order, oldName) # <<>>,
                              oldName, newName))

RenameType ==
  /\ CanTransform
  /\ \E r \in DOMAIN templates, order \in FileOrders, oldName \in TypeNames, newName \in NewNames :
       Returns(r, "RenameType", <<oldName, newName>>,
               renameDeclared(objects, templates[r],
                              findType(Files(objects, templates[r]), order, oldName) # <<>>,
                              oldName, newName))

RenameStructField ==
  /\ CanTransform
  /\ \E r \in DOMAIN templates, check \in FileOrders, apply \in FileOrders :
     \E structName \in StructNames, oldFieldName \in OldFieldNames, newField \in NewFields :
       Returns(r, "RenameStructField", <<structName, oldFieldName, newField>>,
               renameStructField(objects, templates[r], check, apply,
                                 structName, oldFieldName, newField))

AddStructField ==
  /\ CanTransform
  /\ \E r \in DOMAIN templates, check \in FileOrders, apply \in FileOrders :
     \E structName \in StructNames, field \in AddedFields :
       Returns(r, "AddStructField", <<structName, field>>,
               addStructField(objects, templates[r], check, apply, structName, field))

RemoveStructField ==
  /\ CanTransform
  /\ \E r \in DOMAIN templates, check \in FileOrders, apply \in FileOrders :
     \E structName \in StructNames, field \in RemovedFields :
       Returns(r, "RemoveStructField", <<structName, field>>,
               removeStructField(objects, templates[r], check, apply, structName, field))

\* the reference sources template.New parses
ReferenceA ==
  ParsedFile("p",
    <<StructDecl("A", <<ExistingField(<<"x">>, "int", ""), ExistingField(<<"y">>, "A", "")>>),
      ValueDecl("var", "v", "A"),
      ValueDecl("const", "c", "int"),
      FuncNode("f", "", <<[Name |-> "v", Type |-> "A"]>>, "A",
               <<CompositeLit("A", <<"x">>), SelectorExpr("v", "x"), Ident("c")>>)>>)

ReferenceB ==
  ParsedFile("p",
    <<StructDecl("B", <<ExistingField(<<"x">>, "int", "")>>),
      TypeDecl("T", "A"),
      FuncNode("m", "A", <<>>, "int", <<SelectorExpr("B", "x")>>)>>)

\* template.go:48-88
InitTemplate ==
  /\ target = "user.go"
  /\ fs = Storage(target, NoFile, NoFile)
  /\ initialPackageName = ""
  /\ dirs = DirsOf(fs)
  /\ Idle
  /\ NoCode
  /\ NoFiles
  /\ NoDiff
  /\ objects = <<ReferenceA, ReferenceB>>
  /\ templates = <<[files |-> [f \in Range(TemplateFileNames) |-> FileIndex(f)], pkgName |-> "p"]>>
  /\ tcall = NoTransform
  /\ objectsBefore = objects
  /\ NoFileOpen

NextTemplate ==
  \/ RenameStruct
  \/ RenameFunction
  \/ RenameVariable
  \/ RenameConstant
  \/ RenameType
  \/ RenameStructField
  \/ AddStructField
  \/ RemoveStructField

SpecTemplate == InitTemplate /\ [][NextTemplate]_vars

\* ------------------------------------ struct.go, File.OpenStruct: the File API
OpenedStructName == "User"

StructFieldNames == {"Id", "Name"}

TagKeySets == {{}, {"json"}, {"json", "db"}}

\* an *ast.Field: its names, its type and the parts of its tag, <<>> for no tag
AstField(names, type, tagParts) == [names |-> names, type |-> type, tag |-> tagParts]

\* the field lists a parsed struct can hold when it is opened
OpenedFieldLists ==
  {<<>>,
   <<AstField(<<"Id">>, "int", <<>>)>>,
   <<AstField(<<"Id">>, "int", <<"json">>), AstField(<<"Name">>, "string", <<>>)>>,
   <<AstField(<<"Age">>, "int", <<>>), AstField(<<"Id", "Name">>, "string", <<>>)>>}

\* struct.go:146-153: the parts of the tag string in the order a range over
\* the tags map yields them, which Go leaves unspecified
TagOrders(tags) ==
  {parts \in [1..Cardinality(tags) -> tags] :
     \A i, j \in DOMAIN parts : i # j => parts[i] # parts[j]}

ModifierCall(op, name, type, tags, err) ==
  [op |-> op, name |-> name, type |-> type, tags |-> tags, err |-> err]

FileFrame ==
  UNCHANGED <<fs, dirs, initialPackageName, target, pc, call, oldContent, newContent,
              fileExists, tempPath, ret, info, answer, pre, log, failed, ncalls,
              objects, templates, tcall, objectsBefore,
              oldLines, newLines, diffOut,
              idents, astFiles, fileCall, identsBefore, astFilesBefore,
              code, codeBefore, astmCall>>

\* part_001:48-80: the struct is looked up by name; the Struct value copies
\* the slice StructType.Fields.List into Fields and is passed by value
OpenStruct ==
  /\ modifierCalls = <<>>
  /\ \E name \in {OpenedStructName, "Other"} :
       IF name # OpenedStructName
         THEN /\ modifierCalls' = <<ModifierCall("OpenStruct", name, "", {}, TRUE)>>
              /\ UNCHANGED <<openStruct, structFields>>
         ELSE /\ modifierCalls' = <<ModifierCall("OpenStruct", name, "", {}, FALSE)>>
              /\ openStruct' = [Name |-> name, Fields |-> structFields]
              /\ UNCHANGED structFields
  /\ FileFrame

InModifier ==
  /\ openStruct # NoStruct
  /\ Len(modifierCalls) <= MaxModifierCalls

\* struct.go:143-171: the field is appended to StructType.Fields.List; the
\* receiver is a value, its Fields stays the slice taken by OpenStruct
StructAdd ==
  /\ InModifier
  /\ \E name \in StructFieldNames, fieldType \in {"string"}, tags \in TagKeySets :
       \E parts \in TagOrders(tags) :
         /\ structFields' = Append(structFields, AstField(<<name>>, fieldType, parts))
         /\ modifierCalls' = Append(modifierCalls, ModifierCall("Add", name, fieldType, tags, FALSE))
  /\ UNCHANGED openStruct
  /\ FileFrame

\* struct.go:175-199: the fields kept are chosen from s.Fields, a field is
\* dropped when any of its names matches, and the list is assigned whether
\* or not a field was found
StructRemove ==
  /\ InModifier
  /\ \E name \in StructFieldNames :
       LET newFields == SelectSeq(openStruct.Fields, LAMBDA field : name \notin Range(field.names))
           found == \E i \in DOMAIN openStruct.Fields : name \in Range(openStruct.Fields[i].names)
       IN /\ structFields' = newFields
          /\ modifierCalls' = Append(modifierCalls, ModifierCall("Remove", name, "", {}, ~found))
  /\ UNCHANGED openStruct
  /\ FileFrame

InitStruct ==
  /\ target = "user.go"
  /\ fs = Storage(target, NoFile, NoFile)
  /\ initialPackageName = ""
  /\ dirs = DirsOf(fs)
  /\ Idle
  /\ NoCode
  /\ NoFiles
  /\ NoDiff
  /\ NoTemplates
  /\ structFields \in OpenedFieldLists
  /\ openStruct = NoStruct
  /\ modifierCalls = <<>>

NextStruct ==
  \/ OpenStruct
  \/ StructAdd
  \/ StructRemove

SpecStruct == InitStruct /\ [][NextStruct]_vars

\* ================================================================ claims
Returned == pc = "idle" /\ ncalls > 0

Proper == call.kind # "none" /\ ~ValidationError(call)

HoldsStruct(file) ==
  file.exists /\ Parses(file.bytes) /\ findOrCreateStruct(file.bytes.decls, StructName) # 0

\* the field list of the struct the merge works on
StructFieldsOf(bytes) ==
  LET decl == bytes.decls[findOrCreateStruct(bytes.decls, StructName)]
      spec == decl.specs[CHOOSE i \in DOMAIN decl.specs : IsStructNamed(decl.specs[i], StructName)]
  IN spec.fields

NameSet(list) == Range(FieldNamesOf(list))

EnsureNames(s) == {s.EnsureFields[i].Name : i \in DOMAIN s.EnsureFields}

\* a Struct call that returned nil on a file that already held the struct
StructMerged ==
  /\ Returned /\ call.kind = "Struct" /\ Proper /\ ret = "nil"
  /\ HoldsStruct(pre[call.Filename])

FieldsBefore == StructFieldsOf(pre[call.Filename].bytes)
FieldsAfter == StructFieldsOf(fs[call.Filename].bytes)

\* C1: with PreserveExisting=true the field names after the merge are
\* (existing names \cup EnsureFields names) \ DeleteFields names; a name in
\* both EnsureFields and DeleteFields is absent.
C1_PreservingMergeIsUnionMinusDelete ==
  StructMerged /\ structDefOf(call).PreserveExisting =>
    /\ HoldsStruct(fs[call.Filename])
    /\ NameSet(FieldsAfter) =
         (NameSet(FieldsBefore) \cup EnsureNames(structDefOf(call))) \ structDefOf(call).DeleteFields

IsEnsureList(fields, ensure) ==
  /\ Len(fields) = Len(ensure)
  /\ \A i \in DOMAIN ensure :
       fields[i].names = <<ensure[i].Name>> /\ fields[i].type = ensure[i].Type

FullReplace ==
  StructMerged /\ ~structDefOf(call).PreserveExisting /\ structDefOf(call).DeleteFields = {}

\* C2: with PreserveExisting=false and no DeleteFields the field list after
\* the merge is exactly EnsureFields, in order; no other existing field survives.
C2_ReplaceYieldsEnsureFields ==
  FullReplace =>
    HoldsStruct(fs[call.Filename]) /\ IsEnsureList(FieldsAfter, structDefOf(call).EnsureFields)

C2_Witness ==
  FullReplace /\ NameSet(FieldsBefore) \ EnsureNames(structDefOf(call)) # {}

\* C3: with PreserveExisting=false and DeleteFields non-empty the resulting
\* fields are exactly EnsureFields: existing fields named in neither list go too.
C3_ReplaceWithDeleteYieldsEnsureFields ==
  StructMerged /\ ~structDefOf(call).PreserveExisting /\ structDefOf(call).DeleteFields # {} =>
    HoldsStruct(fs[call.Filename]) /\ IsEnsureList(FieldsAfter, structDefOf(call).EnsureFields)

\* the declarations of a file other than the struct, in order
WithoutStruct(decls) ==
  LET strip(d) == [d EXCEPT !.specs = SelectSeq(@, LAMBDA sp : ~IsStructNamed(sp, StructName))]
      stripped == [i \in DOMAIN decls |-> strip(decls[i])]
  IN SelectSeq(stripped, LAMBDA d : d.specs # <<>>)

StructCallOnSource ==
  /\ Returned /\ call.kind = "Struct" /\ Proper
  /\ pre[call.Filename].exists /\ Parses(pre[call.Filename].bytes)

C5_SecondApplicationChangesNothing ==
  /\ Returned /\ ncalls >= 2 /\ call.kind = "Struct" /\ Proper /\ ret = "nil"
  /\ structDefOf(call).PreserveExisting
  => answer = "none" /\ "Conflict" \notin Range(log) /\ fs = pre

\* the freshly rendered bytes equal the bytes the existing target holds
RendersSame ==
  /\ Proper
  /\ pre[call.Filename].exists
  /\ failed \cap {"Stat", "ReadFile"} = {}
  /\ LET res == modifyInFile(pre[call.Filename].bytes, call, initialPackageName)
     IN ~res.err /\ res.bytes = pre[call.Filename].bytes

\* C6: when the target exists and the rendered bytes equal its bytes, the call
\* returns nil without entering the apply protocol: no MkdirAll, no temp file,
\* no write, rename or remove, and no call of the conflict function.
C6_EqualBytesSkipApply ==
  RendersSame =>
    /\ pc = "idle" /\ ret = "nil"
    /\ log = <<"Stat", "ReadFile">>
    /\ answer = "none" /\ info = NoInfo /\ tempPath = ""
    /\ fs = pre

C6_Witness == RendersSame /\ Returned /\ call.kind \in {"Struct", "Variable"}

AcceptedCleanly == Returned /\ Proper /\ answer = "accept" /\ failed = {}

ShownRecordIsRight ==
  /\ fs[call.Filename] = FileOf(info.NewContent)
  /\ ret = "nil"
  /\ ~fs[tempPath].exists
  /\ info.Action = (IF pre[call.Filename].exists THEN "modify" ELSE "create")
  /\ info.OldContent = (IF pre[call.Filename].exists THEN pre[call.Filename].bytes ELSE EmptyBytes)

\* C7 as claimed: after an accepted apply without storage failure the target
\* holds the NewContent shown, the call returns nil, neither the temp file nor
\* target+".backup" exists, Action is "create" exactly for a new target and
\* OldContent is the bytes before the call.
C7_AcceptedApplyLeavesNoBackup ==
  AcceptedCleanly =>
    ShownRecordIsRight /\ ~fs[backupPath(call.Filename)].exists

\* C7 amended: as C7, but target+".backup" is absent when the target existed
\* before the call; when the target was new, a file already at target+".backup"
\* is left as it was.
C7_AcceptedApply ==
  AcceptedCleanly =>
    /\ ShownRecordIsRight
    /\ IF pre[call.Filename].exists
         THEN ~fs[backupPath(call.Filename)].exists
         ELSE fs[backupPath(call.Filename)] = pre[backupPath(call.Filename)]

C7_Witness ==
  AcceptedCleanly /\ pre[call.Filename].exists /\ pre[backupPath(call.Filename)].exists

FinalRenameFailed ==
  /\ Returned /\ Proper /\ pre[call.Filename].exists
  /\ answer = "accept" /\ failed = {"Rename:apply"}

\* C8: when the target exists, the conflict function accepts and only the
\* rename of the temp file onto the target fails, the call returns an error
\* and the target holds its original bytes.
C8_FailedFinalRenameRestores ==
  FinalRenameFailed => ret = "error" /\ fs[call.Filename] = pre[call.Filename]

C8_Witness == FinalRenameFailed /\ "Rename:restore" \in Range(log)

\* C9: during and after an apply to an existing target, whatever fails, the
\* target path exists and holds the complete old or the complete new bytes.
C9_TargetAlwaysWhole ==
  Proper /\ fileExists /\ pre[call.Filename].exists =>
    /\ fs[call.Filename].exists
    /\ fs[call.Filename].bytes \in {oldContent, newContent}

Rejected == Returned /\ Proper /\ answer = "reject"

\* C10: when the conflict function returns false the call returns nil and the
\* target is as before: the same bytes, or still absent.
C10_RejectionChangesNothing ==
  Rejected => ret = "nil" /\ fs[call.Filename] = pre[call.Filename]

C10_Witness == Rejected /\ "Remove:temp" \in Range(log) /\ ~fs[tempPath].exists

EnteredApply == \E i \in DOMAIN log : log[i] \notin {"Stat", "ReadFile"}

ApplyReturned == Returned /\ Proper /\ EnteredApply

\* C11: whenever applyChanges returns, by success, by rejection or after a
\* failure of one of the backup rename, the final rename, the restoring rename
\* or the backup removal, no file is at target+".backup" (none was there
\* before the call).
C11_NoBackupAtReturn ==
  /\ ApplyReturned
  /\ ~pre[backupPath(call.Filename)].exists
  /\ failed \subseteq {"Rename:backup", "Rename:apply", "Rename:restore", "Remove:backup"}
  /\ Cardinality(failed) <= 1
  => ~fs[backupPath(call.Filename)].exists

\* the returns of applyChanges other than the success path, after a temp file
\* was made: a failed temp write, a rejection, a failed backup rename, a failed
\* final rename onto an existing or a new target
LeftWithoutApplying ==
  /\ ApplyReturned
  /\ tempPath # ""
  /\ \/ answer = "reject" /\ failed = {}
     \/ failed \in {{"WriteFile"}, {"Rename:backup"}, {"Rename:apply"}, {"Rename:create"}}

BothOrNeither(opts) ==
  LET structured ==
        \/ opts.Items # <<>>
        \/ opts.kind \in {"Method", "Function"} /\ (opts.ReturnType # "" \/ opts.Body # "")
  IN structured <=> opts.Content # <<>>

\* the spec omits a Filename, Name or ReceiverType its kind requires
OmitsRequired(opts) ==
  \/ opts.Filename = ""
  \/ opts.kind \in {"Struct", "Method", "Function"} /\ opts.Name = ""
  \/ opts.kind = "Method" /\ opts.ReceiverType = ""

Invalid == call.kind # "none" /\ (BothOrNeither(call) \/ OmitsRequired(call))

\* C13: for each of the six kinds, a spec that gives both forms, neither form,
\* or omits a required Filename, Name or ReceiverType makes the call return an
\* error before any storage operation, so storage is unchanged.
C13_ValidationBeforeStorage ==
  Invalid => pc = "idle" /\ ret = "error" /\ log = <<>> /\ fs = pre /\ tempPath = ""

C13_Witness ==
  Invalid /\ Returned /\ call.kind = "Method" /\ call.ReceiverType = "" /\ pre[target].exists

CreatedStruct ==
  /\ Returned /\ call.kind = "Struct" /\ Proper
  /\ ~pre[call.Filename].exists

\* C14: when the target does not exist, an accepted Struct call creates it
\* with the package clause Options.InitialPackageName (main when that is
\* empty) and one struct of the requested name whose fields are exactly
\* EnsureFields in order, whatever DeleteFields and PreserveExisting are.
C14_NewFileSynthesis ==
  CreatedStruct =>
    /\ ret = "nil"
    /\ fs[call.Filename].exists
    /\ fs[call.Filename].bytes.pkg =
         (IF initialPackageName = "" THEN "main" ELSE initialPackageName)
    /\ Len(fs[call.Filename].bytes.decls) = 1
    /\ fs[call.Filename].bytes.decls[1].tok = "type"
    /\ Len(fs[call.Filename].bytes.decls[1].specs) = 1
    /\ IsStructNamed(fs[call.Filename].bytes.decls[1].specs[1], call.Name)
    /\ IsEnsureList(fs[call.Filename].bytes.decls[1].specs[1].fields,
                    structDefOf(call).EnsureFields)

C14_Witness ==
  /\ CreatedStruct /\ ncalls = 1
  /\ initialPackageName = "models"
  /\ call.DeleteFields \cap EnsureNames(structDefOf(call)) # {}
  /\ ~call.PreserveExisting

\* ------------------------------------------------------ package template
Transformed == tcall.op # "none"

Succeeded == Transformed /\ ~tcall.err

ReceiverBefore == Files(objectsBefore, templates[tcall.recv])

ResultFiles == Files(objects, templates[tcall.result])

IsRename == tcall.op \in {"RenameStruct", "RenameFunction", "RenameVariable",
                           "RenameConstant", "RenameType"}

\* the declaration names the call was given: old and new name, or the struct
CallNames == IF IsRename THEN {tcall.args[1], tcall.args[2]} ELSE {tcall.args[1]}

\* every Extract result of a Template, for a name and an order of its files
Extracts(files, order, name) ==
  <<ExtractStruct(files, order, name), ExtractFunction(files, order, name),
    ExtractMethod(files, order, "A", name), ExtractVariable(files, order, name),
    ExtractConstant(files, order, name), ExtractType(files, order, name)>>

\* C15: after a transform, whether it succeeded or failed, the receiver holds
\* the files it held before the call, so every lookup on it finds what it
\* found before, and every Extract of the names the call was given returns
\* what it returned before; every parsed file that existed before the call
\* (those of the original and of every Template derived earlier in a chain)
\* is unchanged, the returned Template shares no file with them, and the
\* original still holds what it was made of.
C15_TemplatesImmutable ==
  Transformed =>
    /\ Files(objects, templates[tcall.recv]) = ReceiverBefore
    /\ \A order \in FileOrders, name \in CallNames :
         Extracts(Files(objects, templates[tcall.recv]), order, name)
           = Extracts(ReceiverBefore, order, name)
    /\ \A i \in DOMAIN objectsBefore : objects[i] = objectsBefore[i]
    /\ tcall.result # 0 =>
         ObjectsOf(templates[tcall.result]) \cap DOMAIN objectsBefore = {}
    /\ Files(objects, templates[1]) = [f \in Range(TemplateFileNames) |->
                                         IF f = "a.go" THEN ReferenceA ELSE ReferenceB]

C15_Witness ==
  /\ Succeeded /\ ncalls = 2 /\ Len(templates) = 3
  /\ tcall.recv = 1 /\ tcall.op = "RenameStruct"
  /\ ResultFiles # ReceiverBefore

AllDecls(files) == Flatten([k \in DOMAIN TemplateFileNames |-> files[TemplateFileNames[k]].decls])

DeclaredAs(files, kinds, name) ==
  \E i \in DOMAIN AllDecls(files) :
    /\ AllDecls(files)[i].kind \in kinds
    /\ AllDecls(files)[i].name = name
    /\ AllDecls(files)[i].kind = "func" => AllDecls(files)[i].recv = ""

StructsNamed(files, name) ==
  SelectSeq(AllDecls(files), LAMBDA d : d.kind = "struct" /\ d.name = name)

KindsOf(op) ==
  CASE op = "RenameStruct" -> {"struct"}
    [] op = "RenameFunction" -> {"func"}
    [] op = "RenameVariable" -> {"var"}
    [] op = "RenameConstant" -> {"const"}
    [] op = "RenameType" -> {"struct", "type"}
    [] OTHER -> {}

\* the precondition of the transform does not hold on the receiver
PreconditionFails ==
  /\ Transformed
  /\ IF IsRename
       THEN ~DeclaredAs(ReceiverBefore, KindsOf(tcall.op), tcall.args[1])
       ELSE LET structs == StructsNamed(ReceiverBefore, tcall.args[1])
                fieldName == IF tcall.op = "RenameStructField"
                               THEN tcall.args[2] ELSE tcall.args[2].Name
            IN \/ structs = <<>>
               \/ /\ tcall.op = "AddStructField"
                  /\ \A i \in DOMAIN structs : HasFieldNamed(structs[i], fieldName)
               \/ /\ tcall.op \in {"RemoveStructField", "RenameStructField"}
                  /\ \A i \in DOMAIN structs : ~HasFieldNamed(structs[i], fieldName)

\* C16: a Rename whose old name has no declaration of its kind, an
\* AddStructField whose struct is missing or has the field already, and a
\* RemoveStructField or RenameStructField whose struct or field is missing
\* return an error and no Template, and change nothing.
C16_TransformsValidateFirst ==
  PreconditionFails =>
    /\ tcall.err /\ tcall.result = 0
    /\ objects = objectsBefore

C16_Witness ==
  /\ PreconditionFails /\ tcall.op = "AddStructField"
  /\ StructsNamed(ReceiverBefore, tcall.args[1]) # <<>>

IdentsOfDecl(d) ==
  {d.name, d.recv, d.type}
    \cup UNION {Range(d.fields[i].names) \cup {d.fields[i].type} : i \in DOMAIN d.fields}
    \cup UNION {{d.params[i].Name, d.params[i].Type} : i \in DOMAIN d.params}
    \cup UNION {{d.body[i].x, d.body[i].name} \cup Range(d.body[i].keys) : i \in DOMAIN d.body}

IdentsOf(files) ==
  UNION {{files[f].pkg} \cup UNION {IdentsOfDecl(files[f].decls[i]) : i \in DOMAIN files[f].decls}
           : f \in DOMAIN files}

findOfKind(op, files, order, name) ==
  CASE op = "RenameStruct" -> findStruct(files, order, name)
    [] op = "RenameFunction" -> findFunction(files, order, name)
    [] op = "RenameVariable" -> findVariable(files, order, name)
    [] op = "RenameConstant" -> findConstant(files, order, name)
    [] OTHER -> findType(files, order, name)

\* the fields or signature of new are those old had: the same field and
\* parameter names, the same types up to the renamed name
SameShape(new, old, oldName, newName) ==
  /\ new.kind = old.kind
  /\ new.recv = Renamed(old.recv, oldName, newName)
  /\ new.type = Renamed(old.type, oldName, newName)
  /\ Len(new.fields) = Len(old.fields)
  /\ \A i \in DOMAIN old.fields :
       /\ new.fields[i].names = old.fields[i].names
       /\ new.fields[i].type = Renamed(old.fields[i].type, oldName, newName)
       /\ new.fields[i].tag = old.fields[i].tag
  /\ Len(new.params) = Len(old.params)
  /\ \A i \in DOMAIN old.params :
       /\ new.params[i].Name = old.params[i].Name
       /\ new.params[i].Type = Renamed(old.params[i].Type, oldName, newName)

RenameSucceeded == Succeeded /\ IsRename /\ tcall.args[1] # tcall.args[2]

\* C17: after a successful RenameStruct, RenameFunction, RenameVariable,
\* RenameConstant or RenameType from old to new, no identifier spelled old is
\* left in the returned Template, a lookup of old reports not found, and a
\* lookup of new finds a declaration with the fields or signature old had.
C17_RenameInvariant ==
  RenameSucceeded =>
    /\ tcall.args[1] \notin IdentsOf(ResultFiles)
    /\ \A order \in FileOrders :
         /\ findOfKind(tcall.op, ResultFiles, order, tcall.args[1]) = <<>>
         /\ findOfKind(tcall.op, ResultFiles, order, tcall.args[2]) # <<>>
         /\ \E was \in FileOrders :
              SameShape(At(ResultFiles, findOfKind(tcall.op, ResultFiles, order, tcall.args[2])),
                        At(ReceiverBefore, findOfKind(tcall.op, ReceiverBefore, was, tcall.args[1])),
                        tcall.args[1], tcall.args[2])

FieldRenamed ==
  /\ Succeeded /\ tcall.op = "RenameStructField"
  /\ tcall.args[2] # tcall.args[3].Name

\* C18: after RenameStructField(S, old, {Name: new}) the returned Template has
\* no field old in struct S, no selector .old and no key old in a struct
\* literal of type S: S{old: v} has become S{new: v}.
C18_FieldRenameReachesLiterals ==
  FieldRenamed =>
    \A i \in DOMAIN AllDecls(ResultFiles) :
      LET d == AllDecls(ResultFiles)[i]
      IN /\ d.kind = "struct" /\ d.name = tcall.args[1] => ~HasFieldNamed(d, tcall.args[2])
         /\ \A j \in DOMAIN d.body :
              /\ d.body[j].e = "sel" => d.body[j].name # tcall.args[2]
              /\ d.body[j].e = "lit" /\ d.body[j].name = tcall.args[1] =>
                   tcall.args[2] \notin Range(d.body[j].keys)
\* the uniqueness key of every declaration of a file: the kind (for a method
\* its receiver type) and the declared name
DeclKeys(decls) ==
  Flatten([i \in DOMAIN decls |->
             [j \in DOMAIN decls[i].specs |->
                <<decls[i].tok, decls[i].specs[j].kind, decls[i].specs[j].name>>]])

UniqueDecls(file) == file.exists /\ Parses(file.bytes) => NoDup(DeclKeys(file.bytes.decls))

\* C19: the files start with declaration names unique per kind, and after
\* every step of every Struct, Function, Method, Variable, Constant and Type
\* call no Go file holds two declarations with the same kind and name.
C19_DeclarationNamesUnique ==
  \A f \in Filenames : UniqueDecls(fs[f])
\* the names a field list declares, in order
NamesOfFields(list) == Flatten([i \in DOMAIN list |-> list[i].names])

\* a field list with the order of the parts of each tag left out
Shape(list) ==
  [i \in DOMAIN list |-> [names |-> list[i].names, type |-> list[i].type,
                           tag |-> Range(list[i].tag)]]

\* one call applied to a field list: Add appends, Remove deletes the named
\* field when the list has it and reports not found otherwise
AfterCall(list, c) ==
  IF c.op = "Add"
    THEN [list |-> Append(list, [names |-> <<c.name>>, type |-> c.type, tag |-> c.tags]),
          err |-> FALSE]
    ELSE [list |-> SelectSeq([i \in DOMAIN list |->
                                [list[i] EXCEPT !.names = SelectSeq(@, LAMBDA n : n # c.name)]],
                             LAMBDA field : field.names # <<>>),
          err |-> c.name \notin Range(NamesOfFields(list))]

RECURSIVE OneAfterAnother(_, _)
OneAfterAnother(list, cs) ==
  IF cs = <<>> THEN list ELSE OneAfterAnother(AfterCall(list, Head(cs)).list, Tail(cs))

ModifierRan == openStruct # NoStruct /\ Len(modifierCalls) > 1

\* C20: inside one OpenStruct modifier the field list after any sequence of
\* Add and Remove calls is the list the calls give when applied one after
\* another to the fields the struct had when it was opened, and the last call
\* reports not found exactly when the field was not there.
C20_AddRemoveSequential ==
  ModifierRan =>
    LET made == Tail(modifierCalls)
        before == OneAfterAnother(Shape(openStruct.Fields), SubSeq(made, 1, Len(made) - 1))
    IN /\ Shape(structFields) = AfterCall(before, made[Len(made)]).list
       /\ made[Len(made)].err = AfterCall(before, made[Len(made)]).err

\* the storage calls and conflict calls of applyChanges, in the order issued
ApplySteps == SelectSeq(log, LAMBDA op : op \notin {"Stat", "ReadFile"})

\* the steps that come before the renames when nothing fails
StepsToConflict ==
  (IF Dir(call.Filename) \notin {"", "."} THEN <<"MkdirAll">> ELSE <<>>)
    \o <<"TempFile", "WriteFile", "Conflict">>

TargetRenames == {"Rename:backup", "Rename:apply", "Rename:restore", "Rename:create"}

ConflictCalls == Cardinality({i \in DOMAIN ApplySteps : ApplySteps[i] = "Conflict"})

\* C24 as stated: every apply that has changes calls the conflict function
\* exactly once.
C24_ConflictOncePerApply ==
  ApplyReturned => ConflictCalls = 1

\* C24 amended: the steps of an apply are issued in the order MkdirAll (for a
\* target in a directory), TempFile, WriteFile, conflict function, renames; the
\* conflict function is called at most once, only after those steps succeeded
\* and with the temp file holding the new content, and exactly once when none
\* of them failed; a rename is issued only after it returned true; and the
\* target is as it was before the call until the conflict function returns.
C24_ApplyOrder ==
  /\ Proper =>
       LET steps == ApplySteps
           before == StepsToConflict
           conflicts == Cardinality({i \in DOMAIN steps : steps[i] = "Conflict"})
       IN /\ \A i \in DOMAIN steps :
               /\ i <= Len(before) /\ steps[i] # "Remove:temp" => steps[i] = before[i]
               /\ steps[i] = "Conflict" =>
                    /\ i = Len(before)
                    /\ failed \cap {"MkdirAll", "TempFile", "WriteFile"} = {}
               /\ steps[i] \in TargetRenames => i > Len(before) /\ answer = "accept"
          /\ conflicts <= 1
          /\ ApplyReturned /\ failed \cap {"MkdirAll", "TempFile", "WriteFile"} = {} =>
               conflicts = 1
  /\ pc \in {"mkdir", "temp", "write", "conflict"} =>
       fs[call.Filename] = pre[call.Filename]
  /\ pc \in {"backup", "create"} =>
       /\ fs[tempPath] = FileOf(newContent)
       /\ fs[call.Filename] = pre[call.Filename]
       /\ Dir(call.Filename) \in dirs \cup {"."}

C24_Witness ==
  /\ ApplyReturned /\ answer = "accept" /\ failed = {}
  /\ Dir(call.Filename) = "m"
  /\ ApplySteps = StepsToConflict \o <<"Rename:backup", "Rename:apply", "Remove:backup">>

PreservingMerge ==
  /\ StructMerged
  /\ structDefOf(call).PreserveExisting
  /\ structDefOf(call).DeleteFields = {}

\* the names of the EnsureFields entries the struct did not have, in order
AddedNames(ensure, existing) ==
  LET fresh == SelectSeq(ensure, LAMBDA e : e.Name \notin existing)
  IN [i \in DOMAIN fresh |-> fresh[i].Name]

\* C25: after a merge with PreserveExisting=true and no DeleteFields the field
\* names are the existing names in their order, followed by the names of the
\* EnsureFields entries that were not present, in EnsureFields order.
C25_PreservingMergeOrder ==
  PreservingMerge =>
    FieldNamesOf(FieldsAfter)
      = FieldNamesOf(FieldsBefore)
          \o AddedNames(structDefOf(call).EnsureFields, NameSet(FieldsBefore))

C25_Witness ==
  /\ PreservingMerge
  /\ FieldsBefore # <<>>
  /\ \E i, j \in DOMAIN structDefOf(call).EnsureFields :
       /\ i < j
       /\ structDefOf(call).EnsureFields[i].Name \notin NameSet(FieldsBefore)
       /\ structDefOf(call).EnsureFields[j].Name \in NameSet(FieldsBefore)

\* C26: a Struct merge on a struct whose field names are pairwise distinct
\* leaves a struct whose field names are pairwise distinct, for any
\* EnsureFields, DeleteFields and PreserveExisting.
C26_FieldNamesStayUnique ==
  StructMerged /\ NoDup(FieldNamesOf(FieldsBefore)) =>
    /\ HoldsStruct(fs[call.Filename])
    /\ NoDup(FieldNamesOf(FieldsAfter))

\* the function declarations of a file named as the call names them: with
\* the receiver type for a Method, without a receiver for a Function
DeclaredLike(decls, opts) ==
  SelectSeq(decls, LAMBDA d : /\ d.tok = "func"
                              /\ d.specs[1].name = opts.Name
                              /\ d.specs[1].kind = (IF opts.kind = "Method"
                                                      THEN opts.ReceiverType ELSE "func"))

\* an accepted Function or Method call on a file that declared the name
Reapplied ==
  /\ AcceptedCleanly /\ call.kind \in {"Function", "Method"}
  /\ pre[call.Filename].exists /\ Parses(pre[call.Filename].bytes)
  /\ DeclaredLike(pre[call.Filename].bytes.decls, call) # <<>>

OwnPaths == {call.Filename} \cup (IF tempPath = "" THEN {} ELSE {tempPath})

\* C30: whatever the outcome of an apply, every stored file other than the
\* target and the temp file of the call, a file already at target+".backup"
\* included, exists and holds the same bytes after the call as before it.
C30_ApplyFrame ==
  ApplyReturned => \A p \in Paths \ OwnPaths : fs[p] = pre[p]

\* every name a lookup may be given
LookupNames ==
  StructNames \cup FunctionNames \cup VariableNames \cup ConstantNames
              \cup TypeNames \cup NewNames

\* C29: a lookup does not depend on the order in which the files of a
\* Template are visited: for every Template and name, every find and every
\* Extract returns the same declaration whatever the order, so the
\* declaration a transform validates against on the receiver is the one, at
\* the same place of the same file, it then changes in the clone.
C29_LookupDeterministic ==
  \A r \in DOMAIN templates, name \in LookupNames, check \in FileOrders, apply \in FileOrders :
    LET files == Files(objects, templates[r])
    IN /\ findStruct(files, check, name) = findStructGenDecl(files, apply, name)
       /\ findFunction(files, check, name) = findFunction(files, apply, name)
       /\ findMethod(files, check, "A", name) = findMethod(files, apply, "A", name)
       /\ findVariable(files, check, name) = findVariable(files, apply, name)
       /\ findConstant(files, check, name) = findConstant(files, apply, name)
       /\ findType(files, check, name) = findType(files, apply, name)
       /\ Extracts(files, check, name) = Extracts(files, apply, name)

\* ---------------------------------------------------------------- diff.go
\* a line of the diff: what it starts with, the text after that, and the
\* position (from 1) of the content line it was written for
Out(mark, text, at) == [mark |-> mark, text |-> text, at |-> at]

contextLines == 3

\* strings.Split of a content: the empty content is the one empty line
SplitEmpty == <<"">>

\* diff.go:60-64
ContextBefore(old, i) ==
  LET js == SelectSeq([k \in 1..contextLines |-> i - contextLines + k - 1],
                      LAMBDA j : j >= 1 /\ j <= Len(old))
  IN [k \in DOMAIN js |-> Out(" ", old[js[k]], js[k])]

\* diff.go:82-90: the matching lines that follow, up to the first that differs
RECURSIVE ContextAfter(_, _, _, _)
ContextAfter(old, new, i, j) ==
  IF j <= i + contextLines /\ j <= Len(old) /\ j <= Len(new) /\ old[j] = new[j]
    THEN <<Out(" ", old[j], j)>> \o ContextAfter(old, new, i, j + 1)
    ELSE <<>>

MaxOf(a, b) == IF a > b THEN a ELSE b

\* diff.go:34-95, one turn of the loop; i counts from 1, as the header prints it
DiffLine(old, new, i, st) ==
  LET hasOld == i <= Len(old)
      hasNew == i <= Len(new)
      same == hasOld /\ hasNew /\ old[i] = new[i]
      opened == IF st.inDiff THEN st
                ELSE [inDiff |-> TRUE, lineNum |-> st.lineNum,
                      diffBlock |-> ContextBefore(old, i),
                      buf |-> Append(st.buf, Out("@@", "", i))]
      s1 == IF same
              THEN [inDiff |-> st.inDiff, lineNum |-> st.lineNum + 1,
                    diffBlock |-> IF st.inDiff THEN Append(st.diffBlock, Out(" ", old[i], i))
                                               ELSE st.diffBlock,
                    buf |-> st.buf]
              ELSE [opened EXCEPT !.diffBlock =
                      @ \o (IF hasOld /\ ~hasNew THEN <<Out("-", old[i], i)>>
                            ELSE IF ~hasOld /\ hasNew THEN <<Out("+", new[i], i)>>
                            ELSE <<Out("-", old[i], i), Out("+", new[i], i)>>)]
  IN IF s1.inDiff /\ (i = MaxOf(Len(old), Len(new)) \/ (same /\ s1.lineNum > contextLines))
       THEN [inDiff |-> FALSE, lineNum |-> s1.lineNum, diffBlock |-> s1.diffBlock,
             buf |-> s1.buf \o s1.diffBlock \o ContextAfter(old, new, i, i + 1)]
       ELSE s1

RECURSIVE DiffLoop(_, _, _, _)
DiffLoop(old, new, i, st) ==
  IF i > MaxOf(Len(old), Len(new)) THEN st
  ELSE DiffLoop(old, new, i + 1, DiffLine(old, new, i, st))

\* diff.go:101-109
prefixLines(lines, prefix) ==
  [i \in DOMAIN lines |->
     IF lines[i] # "" \/ i < Len(lines) THEN Out(prefix \o " ", lines[i], i)
                                        ELSE Out("", lines[i], i)]

\* diff.go:10-98
generateDiff(old, new, filename) ==
  IF old = SplitEmpty
    THEN <<Out("---", "/dev/null", 0), Out("+++", filename, 0)>> \o prefixLines(new, "+")
    ELSE DiffLoop(old, new, 1,
                  [inDiff |-> FALSE, lineNum |-> 0, diffBlock |-> <<>>,
                   buf |-> <<Out("---", filename, 0), Out("+++", filename, 0)>>]).buf

DiffFrame ==
  UNCHANGED <<fs, dirs, initialPackageName, target, pc, call, oldContent, newContent,
              fileExists, tempPath, ret, info, answer, pre, log, failed, ncalls,
              objects, templates, tcall, objectsBefore,
              structFields, openStruct, modifierCalls,
              idents, astFiles, fileCall, identsBefore, astFilesBefore,
              code, codeBefore, astmCall>>

GenerateDiff ==
  /\ diffOut = <<>>
  /\ diffOut' = generateDiff(oldLines, newLines, target)
  /\ UNCHANGED <<oldLines, newLines>>
  /\ DiffFrame

LineTexts == {"a", "b"}

Contents == UNION {[1..n -> LineTexts] : n \in 1..MaxLines}

InitDiff ==
  /\ target = "user.go"
  /\ fs = Storage(target, NoFile, NoFile)
  /\ initialPackageName = ""
  /\ dirs = DirsOf(fs)
  /\ Idle
  /\ NoCode
  /\ NoFiles
  /\ NoTemplates
  /\ NoFileOpen
  /\ oldLines \in Contents \cup {SplitEmpty}
  /\ newLines \in Contents
  /\ diffOut = <<>>

NextDiff == GenerateDiff

SpecDiff == InitDiff /\ [][NextDiff]_vars

\* the positions at which the old and the new content differ
Differing ==
  {p \in 1..MaxOf(Len(oldLines), Len(newLines)) :
     ~(p <= Len(oldLines) /\ p <= Len(newLines) /\ oldLines[p] = newLines[p])}

\* the hunk a line of the diff belongs to: the headers written up to it
HunkOf(k) == Cardinality({h \in 1..k : diffOut[h].mark = "@@"})

Reports(mark, p) == {k \in DOMAIN diffOut : diffOut[k].mark = mark /\ diffOut[k].at = p}

DiffOfExisting == diffOut # <<>> /\ oldLines # SplitEmpty

\* every differing position is reported once, the old line after "-" and the
\* new line after "+", in one hunk
ReportedOnce ==
  \A p \in Differing :
    /\ p <= Len(oldLines) =>
         \E k \in DOMAIN diffOut : Reports("-", p) = {k} /\ diffOut[k].text = oldLines[p]
    /\ p <= Len(newLines) =>
         \E k \in DOMAIN diffOut : Reports("+", p) = {k} /\ diffOut[k].text = newLines[p]
    /\ \A k \in Reports("-", p) \cup Reports("+", p), l \in Reports("-", p) \cup Reports("+", p) :
         HunkOf(k) = HunkOf(l) /\ HunkOf(k) > 0

\* C28: in the diff of an existing file every position whose old and new
\* lines differ is reported in exactly one hunk, the old line after "-" and
\* the new line after "+", and two differing positions with at most three
\* matching lines and no differing line between them are in the same hunk,
\* wherever in the file they are.
C28_DiffHunkGrouping ==
  DiffOfExisting =>
    /\ ReportedOnce
    /\ \A p \in Differing, q \in Differing :
         p < q /\ q - p - 1 <= contextLines /\ (\A m \in (p + 1)..(q - 1) : m \notin Differing) =>
           \A k \in Reports("-", p) \cup Reports("+", p), l \in Reports("-", q) \cup Reports("+", q) :
             HunkOf(k) = HunkOf(l)

\* ------------------------------------------- the File API over the go/ast tree
\* An identifier node is an entry of idents; a tree holds identifier nodes by
\* their index, so that two trees holding the same index share the node.
IdentNode(name, obj) == [Name |-> name, Obj |-> obj]

\* expressions: an identifier id; a selector x.id; a call of id or x.id (x = 0
\* for none) with identifier arguments; a composite literal of type id with
\* keys args; a basic literal or a nil expression of the given text
IdentExpr(c) == [e |-> "ident", x |-> 0, id |-> c, args |-> <<>>, value |-> ""]
SelExpr(x, c) == [e |-> "sel", x |-> x, id |-> c, args |-> <<>>, value |-> ""]
CallExpr(x, c, args) == [e |-> "call", x |-> x, id |-> c, args |-> args, value |-> ""]
LitExpr(c, keys) == [e |-> "lit", x |-> 0, id |-> c, args |-> keys, value |-> ""]
BasicLit(value) == [e |-> "basic", x |-> 0, id |-> 0, args |-> <<>>, value |-> value]
NilExpr == [e |-> "nil", x |-> 0, id |-> 0, args |-> <<>>, value |-> ""]

\* statements: "return", "assign", "expr", and "other" for every other kind
Stmt(kind, exprs) == [s |-> kind, exprs |-> exprs]

\* an *ast.Field of a struct, a receiver, a parameter or a result
FieldNode(names, star, type, tag) == [names |-> names, star |-> star, type |-> type, tag |-> tag]

\* a struct TypeSpec in its GenDecl, or a FuncDecl
DeclNode(kind, name, recv, fields, params, results, body) ==
  [kind |-> kind, name |-> name, recv |-> recv, fields |-> fields,
   params |-> params, results |-> results, body |-> body]

AstFileNode(pkg, decls) == [pkg |-> pkg, decls |-> decls]

\* the identifier nodes under a node
FieldIdents(f) == Range(f.names) \cup {f.type}
FieldListIdents(list) == UNION {FieldIdents(list[i]) : i \in DOMAIN list}
ExprIdents(x) == ({x.x, x.id} \ {0}) \cup Range(x.args)
StmtIdents(st) == UNION {ExprIdents(st.exprs[i]) : i \in DOMAIN st.exprs}
BlockIdents(body) == UNION {StmtIdents(body[i]) : i \in DOMAIN body}
DeclIdents(d) ==
  {d.name} \cup FieldListIdents(d.recv) \cup FieldListIdents(d.fields)
           \cup FieldListIdents(d.params) \cup FieldListIdents(d.results)
           \cup BlockIdents(d.body)
FileIdents(f) == {f.pkg} \cup UNION {DeclIdents(f.decls[i]) : i \in DOMAIN f.decls}

\* the identifier nodes copyDecl replaces by ast.NewIdent: every one but those
\* under an expression or a statement that the default branches hand back
CopiedExprIdents(x) == IF x.e \in {"ident", "sel"} THEN ExprIdents(x) ELSE {}
CopiedStmtIdents(st) ==
  IF st.s = "other" THEN {}
  ELSE UNION {CopiedExprIdents(st.exprs[i]) : i \in DOMAIN st.exprs}
CopiedDeclIdents(d) ==
  {d.name} \cup FieldListIdents(d.recv) \cup FieldListIdents(d.fields)
           \cup FieldListIdents(d.params) \cup FieldListIdents(d.results)
           \cup UNION {CopiedStmtIdents(d.body[i]) : i \in DOMAIN d.body}

\* ast.NewIdent for each node of a set: the heap with the new nodes, which
\* have no Obj, and the new node of each old one
NewIdents(heap, S) ==
  LET rank(c) == Cardinality({x \in S : x <= c})
      nth(k) == CHOOSE c \in S : rank(c) = k
  IN [heap |-> heap \o [k \in 1..Cardinality(S) |-> IdentNode(heap[nth(k)].Name, "")],
      new |-> [c \in S |-> Len(heap) + rank(c)]]

\* part_004:80-122: StructType, Ident, StarExpr and SelectorExpr are copied,
\* every other expression is returned as it is
copyExpr(x, new) ==
  IF x.e \in {"ident", "sel"}
    THEN [e |-> x.e, x |-> IF x.x = 0 THEN 0 ELSE new[x.x], id |-> new[x.id],
          args |-> x.args, value |-> x.value]
    ELSE x

\* part_004:144-158
copyField(f, new) ==
  [names |-> [i \in DOMAIN f.names |-> new[f.names[i]]], star |-> f.star,
   type |-> new[f.type], tag |-> f.tag]

\* part_004:126-140
copyFieldList(list, new) == [i \in DOMAIN list |-> copyField(list[i], new)]

\* part_004:190-227: ReturnStmt, AssignStmt and ExprStmt are copied, every
\* other statement is returned as it is
copyStmt(st, new) ==
  IF st.s = "other" THEN st
  ELSE [s |-> st.s, exprs |-> [i \in DOMAIN st.exprs |-> copyExpr(st.exprs[i], new)]]

\* part_004:162-177
copyBlockStmt(body, new) == [i \in DOMAIN body |-> copyStmt(body[i], new)]

\* part_004:7-75: copyDecl with copySpec and copyFuncType
copyDecl(d, new) ==
  [kind |-> d.kind, name |-> new[d.name],
   recv |-> copyFieldList(d.recv, new), fields |-> copyFieldList(d.fields, new),
   params |-> copyFieldList(d.params, new), results |-> copyFieldList(d.results, new),
   body |-> copyBlockStmt(d.body, new)]

\* part_001:84-114
Clone(heap, f) ==
  LET made == NewIdents(heap, {f.pkg} \cup UNION {CopiedDeclIdents(f.decls[i]) : i \in DOMAIN f.decls})
  IN [heap |-> made.heap,
      file |-> AstFileNode(made.new[f.pkg],
                           [i \in DOMAIN f.decls |-> copyDecl(f.decls[i], made.new)])]

SetName(heap, S, name) ==
  [c \in DOMAIN heap |-> IF c \in S THEN IdentNode(name, heap[c].Obj) ELSE heap[c]]

Outcome(err, heap, f) == [err |-> err, heap |-> heap, file |-> f]

\* part_001:20-44: every identifier under the file spelled oldName is renamed
File_RenameType(heap, f, oldName, newName) ==
  LET hit == {c \in FileIdents(f) : heap[c].Name = oldName}
  IN Outcome(hit = {}, SetName(heap, hit, newName), f)

IsFunction(heap, d, name) == d.kind = "func" /\ heap[d.name].Name = name /\ d.recv = <<>>

FirstDecl(hits) == IF hits = {} THEN 0 ELSE CHOOSE i \in hits : \A j \in hits : i <= j

\* part_001:120-180
File_RenameFunction(heap, f, oldName, newName) ==
  LET at == FirstDecl({i \in DOMAIN f.decls : IsFunction(heap, f.decls[i], oldName)})
  IN IF oldName = "main" /\ at # 0
       THEN LET made == NewIdents(heap, CopiedDeclIdents(f.decls[at]))
                newFunc == copyDecl(f.decls[at], made.new)
                named == SetName(made.heap, {newFunc.name}, newName)
                callee == Len(named) + 1
            IN Outcome(FALSE, Append(named, IdentNode(newName, "")),
                       AstFileNode(f.pkg,
                         [i \in DOMAIN f.decls |->
                            IF i = at
                              THEN DeclNode("func", f.decls[i].name, f.decls[i].recv,
                                            f.decls[i].fields, f.decls[i].params,
                                            f.decls[i].results,
                                            <<Stmt("expr", <<CallExpr(0, callee, <<>>)>>)>>)
                              ELSE f.decls[i]] \o <<newFunc>>))
       ELSE LET declared == IF at = 0 THEN heap ELSE SetName(heap, {f.decls[at].name}, newName)
                refs == {c \in FileIdents(f) : declared[c].Name = oldName /\ declared[c].Obj = "fun"}
            IN Outcome(at = 0 /\ refs = {}, SetName(declared, refs, newName), f)

IsStruct(heap, d, name) == d.kind = "struct" /\ heap[d.name].Name = name

\* struct.go:143-171 on the struct OpenStruct found; the tag is the string
\* made of the parts
Struct_Add(heap, f, structName, name, fieldType, tag) ==
  Outcome(FALSE, heap \o <<IdentNode(name, ""), IdentNode(fieldType, "")>>,
          AstFileNode(f.pkg,
            [i \in DOMAIN f.decls |->
               IF IsStruct(heap, f.decls[i], structName)
                 THEN DeclNode("struct", f.decls[i].name, <<>>,
                               Append(f.decls[i].fields,
                                      FieldNode(<<Len(heap) + 1>>, FALSE, Len(heap) + 2, tag)),
                               <<>>, <<>>, <<>>)
                 ELSE f.decls[i]]))

\* struct.go:175-199 on the struct OpenStruct found
Struct_Remove(heap, f, structName, name) ==
  LET named(field) == \E k \in DOMAIN field.names : heap[field.names[k]].Name = name
  IN Outcome(~\E i \in DOMAIN f.decls :
                 /\ IsStruct(heap, f.decls[i], structName)
                 /\ \E j \in DOMAIN f.decls[i].fields : named(f.decls[i].fields[j]),
             heap,
             AstFileNode(f.pkg,
               [i \in DOMAIN f.decls |->
                  IF IsStruct(heap, f.decls[i], structName)
                    THEN DeclNode("struct", f.decls[i].name, <<>>,
                                  SelectSeq(f.decls[i].fields, LAMBDA field : ~named(field)),
                                  <<>>, <<>>, <<>>)
                    ELSE f.decls[i]]))

\* struct.go:402-422: the receiver type, behind a star or not
getReceiverType(heap, d) == IF d.recv = <<>> THEN "" ELSE heap[d.recv[1].type].Name

IsMethodOf(heap, d, structName, methodName) ==
  /\ d.kind = "func" /\ heap[d.name].Name = methodName
  /\ d.recv # <<>> /\ getReceiverType(heap, d) = structName

\* struct.go:233-243: some call anywhere in the file selects methodName
MethodCalled(heap, f, methodName) ==
  \E i \in DOMAIN f.decls : \E j \in DOMAIN f.decls[i].body :
    \E k \in DOMAIN f.decls[i].body[j].exprs :
      LET x == f.decls[i].body[j].exprs[k]
      IN x.e = "call" /\ x.x # 0 /\ heap[x.id].Name = methodName

IntTypes == {"int", "int8", "int16", "int32", "int64",
             "uint", "uint8", "uint16", "uint32", "uint64"}

\* struct.go:290-327: the default of the first result; with no result, nil
getDefaultReturnValue(heap, results) ==
  IF results = <<>> THEN [heap |-> heap, value |-> NilExpr]
  ELSE LET t == IF results[1].star THEN "*" ELSE heap[results[1].type].Name
       IN IF t = "string" THEN [heap |-> heap, value |-> BasicLit("\"HELLO, WORLD!\"")]
          ELSE IF t \in IntTypes THEN [heap |-> heap, value |-> BasicLit("0")]
          ELSE IF t \in {"float32", "float64"} THEN [heap |-> heap, value |-> BasicLit("0.0")]
          ELSE [heap |-> Append(heap, IdentNode(IF t = "bool" THEN "false" ELSE "nil", "")),
                value |-> IdentExpr(Len(heap) + 1)]

\* struct.go:204-286
Struct_RemoveMethod(heap, f, structName, methodName) ==
  LET at == FirstDecl({i \in DOMAIN f.decls : IsMethodOf(heap, f.decls[i], structName, methodName)})
  IN IF at = 0 THEN Outcome(TRUE, heap, f)
     ELSE IF MethodCalled(heap, f, methodName)
       THEN LET removedMethod == f.decls[at]
                named == Append(heap, IdentNode(methodName, ""))
                default == getDefaultReturnValue(named, removedMethod.results)
            IN Outcome(FALSE, default.heap,
                       AstFileNode(f.pkg,
                         Append(f.decls,
                                DeclNode("func", Len(named), removedMethod.recv, <<>>,
                                         removedMethod.params, removedMethod.results,
                                         <<Stmt("return", <<default.value>>)>>))))
       ELSE Outcome(FALSE, heap,
                    AstFileNode(f.pkg,
                      SelectSeq(f.decls,
                                LAMBDA d : ~IsMethodOf(heap, d, structName, methodName))))

\* part_001:48-80, with a modifier that makes one call on the Struct
File_OpenStruct(heap, f, name, modified) ==
  IF \E i \in DOMAIN f.decls : IsStruct(heap, f.decls[i], name)
    THEN modified
    ELSE Outcome(TRUE, heap, f)

\* ----------------------------------------------------- the File API calls
FileApiFrame ==
  UNCHANGED <<fs, dirs, initialPackageName, target, pc, call, oldContent, newContent,
              fileExists, tempPath, ret, info, answer, pre, log, failed,
              objects, templates, tcall, objectsBefore,
              structFields, openStruct, modifierCalls,
              oldLines, newLines, diffOut,
              code, codeBefore, astmCall>>

CanCallFile == astFiles # <<>> /\ ncalls < MaxFileCalls

\* a call on File k returns: the heap and the tree it left, and its error
FileReturns(k, op, args, out) ==
  /\ identsBefore' = idents
  /\ astFilesBefore' = astFiles
  /\ idents' = out.heap
  /\ astFiles' = [i \in DOMAIN astFiles |-> IF i = k THEN out.file ELSE astFiles[i]]
  /\ fileCall' = [op |-> op, file |-> k, args |-> args, err |-> out.err, result |-> 0]
  /\ ncalls' = ncalls + 1
  /\ FileApiFrame

FileClone ==
  /\ CanCallFile /\ Len(astFiles) < MaxFiles
  /\ \E k \in DOMAIN astFiles :
       LET made == Clone(idents, astFiles[k])
       IN /\ identsBefore' = idents
          /\ astFilesBefore' = astFiles
          /\ idents' = made.heap
          /\ astFiles' = Append(astFiles, made.file)
          /\ fileCall' = [op |-> "Clone", file |-> k, args |-> <<>>, err |-> FALSE,
                          result |-> Len(astFiles) + 1]
          /\ ncalls' = ncalls + 1
          /\ FileApiFrame

MessageStruct == "Message"

FileRenameType ==
  /\ CanCallFile
  /\ \E k \in DOMAIN astFiles, oldName \in {MessageStruct, "Text"}, newName \in {"Car"} :
       FileReturns(k, "RenameType", <<oldName, newName>>,
                   File_RenameType(idents, astFiles[k], oldName, newName))

FileRenameFunction ==
  /\ CanCallFile
  /\ \E k \in DOMAIN astFiles, oldName \in {"main", "helper", "absent"}, newName \in {"run"} :
       FileReturns(k, "RenameFunction", <<oldName, newName>>,
                   File_RenameFunction(idents, astFiles[k], oldName, newName))

FileStructAdd ==
  /\ CanCallFile
  /\ \E k \in DOMAIN astFiles, name \in {MessageStruct, "Other"} :
       FileReturns(k, "Add", <<name, "Id", "int">>,
                   File_OpenStruct(idents, astFiles[k], name,
                                   Struct_Add(idents, astFiles[k], name, "Id", "int", "")))

FileStructRemove ==
  /\ CanCallFile
  /\ \E k \in DOMAIN astFiles, field \in {"Text", "Id"} :
       FileReturns(k, "Remove", <<MessageStruct, field>>,
                   File_OpenStruct(idents, astFiles[k], MessageStruct,
                                   Struct_Remove(idents, astFiles[k], MessageStruct, field)))

MethodNames == {"Used", "Useless", "Missing"}

FileStructRemoveMethod ==
  /\ CanCallFile
  /\ \E k \in DOMAIN astFiles, methodName \in MethodNames :
       FileReturns(k, "RemoveMethod", <<MessageStruct, methodName>>,
                   File_OpenStruct(idents, astFiles[k], MessageStruct,
                                   Struct_RemoveMethod(idents, astFiles[k], MessageStruct,
                                                       methodName)))

\* the result types the methods of the parsed file may have; "" for none
ResultTypes == {"", "string", "int", "float64", "bool", "error", "*Message"}

\* the identifier nodes of the parsed file
\*   package main
\*   type Message struct { Text string }
\*   func (m *Message) Used() R { return m.Text }
\*   func (m Message) Useless() R { return 1 }
\*   func helper() { fmt.Println() }
\*   func main() { msg := Message{Text: v}; msg.Used(); helper() }
ParsedIdents(r) ==
  <<IdentNode("main", ""), IdentNode("Message", "typ"), IdentNode("Text", "var"),
    IdentNode("string", ""),
    IdentNode("Used", ""), IdentNode("m", "var"), IdentNode("Message", "typ"),
    IdentNode("m", "var"), IdentNode("Text", ""),
    IdentNode("Useless", ""), IdentNode("m", "var"), IdentNode("Message", "typ"),
    IdentNode("helper", "fun"), IdentNode("fmt", ""), IdentNode("Println", ""),
    IdentNode("main", "fun"), IdentNode("msg", "var"), IdentNode("Message", "typ"),
    IdentNode("Text", ""), IdentNode("msg", "var"), IdentNode("Used", ""),
    IdentNode("helper", "fun"),
    IdentNode(IF r = "*Message" THEN "Message" ELSE r, ""),
    IdentNode(IF r = "*Message" THEN "Message" ELSE r, "")>>

ResultList(r, c) == IF r = "" THEN <<>> ELSE <<FieldNode(<<>>, r = "*Message", c, "")>>

ParsedFileTree(r) ==
  AstFileNode(1,
    <<DeclNode("struct", 2, <<>>, <<FieldNode(<<3>>, FALSE, 4, "")>>, <<>>, <<>>, <<>>),
      DeclNode("func", 5, <<FieldNode(<<6>>, TRUE, 7, "")>>, <<>>, <<>>, ResultList(r, 23),
               <<Stmt("return", <<SelExpr(8, 9)>>)>>),
      DeclNode("func", 10, <<FieldNode(<<11>>, FALSE, 12, "")>>, <<>>, <<>>, ResultList(r, 24),
               <<Stmt("return", <<BasicLit("1")>>)>>),
      DeclNode("func", 13, <<>>, <<>>, <<>>, <<>>,
               <<Stmt("expr", <<CallExpr(14, 15, <<>>)>>)>>),
      DeclNode("func", 16, <<>>, <<>>, <<>>, <<>>,
               <<Stmt("assign", <<IdentExpr(17), LitExpr(18, <<19>>)>>),
                 Stmt("expr", <<CallExpr(20, 21, <<>>)>>),
                 Stmt("expr", <<CallExpr(0, 22, <<>>)>>)>>)>>)

\* a File parsed from source, not yet cloned or changed
InitFile ==
  /\ target = "user.go"
  /\ fs = Storage(target, NoFile, NoFile)
  /\ initialPackageName = ""
  /\ dirs = DirsOf(fs)
  /\ Idle
  /\ NoCode
  /\ NoDiff
  /\ NoTemplates
  /\ NoFileOpen
  /\ \E r \in ResultTypes :
       /\ idents = ParsedIdents(r)
       /\ astFiles = <<ParsedFileTree(r)>>
  /\ fileCall = NoFileCall
  /\ identsBefore = idents
  /\ astFilesBefore = astFiles

NextFile ==
  \/ FileClone
  \/ FileRenameType
  \/ FileRenameFunction
  \/ FileStructAdd
  \/ FileStructRemove
  \/ FileStructRemoveMethod

SpecFile == InitFile /\ [][NextFile]_vars

\* a tree as it prints: every identifier node replaced by its name
ViewField(heap, f) ==
  [names |-> [i \in DOMAIN f.names |-> heap[f.names[i]].Name], star |-> f.star,
   type |-> heap[f.type].Name, tag |-> f.tag]
ViewFields(heap, list) == [i \in DOMAIN list |-> ViewField(heap, list[i])]
ViewExpr(heap, x) ==
  [e |-> x.e, x |-> IF x.x = 0 THEN "" ELSE heap[x.x].Name,
   id |-> IF x.id = 0 THEN "" ELSE heap[x.id].Name,
   args |-> [i \in DOMAIN x.args |-> heap[x.args[i]].Name], value |-> x.value]
ViewBlock(heap, body) ==
  [i \in DOMAIN body |->
     [s |-> body[i].s,
      exprs |-> [j \in DOMAIN body[i].exprs |-> ViewExpr(heap, body[i].exprs[j])]]]
ViewDecl(heap, d) ==
  [kind |-> d.kind, name |-> heap[d.name].Name, recv |-> ViewFields(heap, d.recv),
   fields |-> ViewFields(heap, d.fields), params |-> ViewFields(heap, d.params),
   results |-> ViewFields(heap, d.results), body |-> ViewBlock(heap, d.body)]
ViewFile(heap, f) ==
  [pkg |-> heap[f.pkg].Name, decls |-> [i \in DOMAIN f.decls |-> ViewDecl(heap, f.decls[i])]]

FileBefore == astFilesBefore[fileCall.file]
FileAfter == astFiles[fileCall.file]

\* the declarations of the method the call names, before and after the call
MethodsBefore ==
  SelectSeq(FileBefore.decls,
            LAMBDA d : IsMethodOf(identsBefore, d, fileCall.args[1], fileCall.args[2]))
MethodsAfter ==
  SelectSeq(FileAfter.decls,
            LAMBDA d : IsMethodOf(idents, d, fileCall.args[1], fileCall.args[2]))

\* the value a stub returns for a result type
DefaultOf(result) ==
  IF result.star THEN "nil"
  ELSE IF result.type = "string" THEN "\"HELLO, WORLD!\""
  ELSE IF result.type \in IntTypes THEN "0"
  ELSE IF result.type \in {"float32", "float64"} THEN "0.0"
  ELSE IF result.type = "bool" THEN "false"
  ELSE "nil"

\* a body that only returns the default of the method's result
IsStubOf(stub, method) ==
  /\ stub.recv = method.recv /\ stub.params = method.params /\ stub.results = method.results
  /\ Len(stub.body) = 1 /\ stub.body[1].s = "return"
  /\ method.results # <<>> =>
       /\ Len(stub.body[1].exprs) = 1
       /\ stub.body[1].exprs[1].e \in {"basic", "ident"}
       /\ (IF stub.body[1].exprs[1].e = "basic" THEN stub.body[1].exprs[1].value
                                                ELSE stub.body[1].exprs[1].id)
            = DefaultOf(method.results[1])

RemoveMethodReturned == fileCall.op = "RemoveMethod"

\* C21: RemoveMethod(m) on struct S returns ErrNotFound and changes nothing
\* when the file has no method m on S or *S; when m is called somewhere in
\* the file, the file afterwards holds exactly one declaration of m on S,
\* with the signature it had and a body that only returns the default of
\* its result type; when m is not called, the file holds no declaration of
\* m on S afterwards.
C21_RemoveMethod ==
  RemoveMethodReturned =>
    IF MethodsBefore = <<>>
      THEN fileCall.err /\ ViewFile(idents, FileAfter) = ViewFile(identsBefore, FileBefore)
    ELSE IF MethodCalled(identsBefore, FileBefore, fileCall.args[2])
      THEN /\ ~fileCall.err
           /\ Len(MethodsAfter) = 1
           /\ IsStubOf(ViewDecl(idents, MethodsAfter[1]), ViewDecl(identsBefore, MethodsBefore[1]))
      ELSE ~fileCall.err /\ MethodsAfter = <<>>

\* a call that changes the File it is made on
Mutated == fileCall.op \notin {"none", "Clone"}

\* C22: Clone returns a deep copy: a RenameType, a RenameFunction or an
\* OpenStruct with Add, Remove or RemoveMethod made on one File (the parsed
\* File or any clone) leaves every other File as it was, down to the
\* identifiers inside function bodies, calls and composite literals.
C22_CloneIsDeep ==
  Mutated =>
    \A j \in DOMAIN astFilesBefore :
      j # fileCall.file =>
        ViewFile(idents, astFiles[j]) = ViewFile(identsBefore, astFilesBefore[j])

\* ------------------------------------------------------------ package astm
\* part_011:10-24: ast.Inspect visits every TypeSpec; each one named
\* structName sets structType, to nil when its type is not a struct, so the
\* last one decides; 0 for nil
astmStructAt(file, structName) ==
  LET named == {i \in DOMAIN file.decls :
                  file.decls[i].kind \in {"struct", "type"} /\ file.decls[i].name = structName}
  IN IF named = {} THEN 0
     ELSE LET last == CHOOSE i \in named : \A j \in named : j <= i
          IN IF file.decls[last].kind = "struct" THEN last ELSE 0

\* part_011:28-37: in every field the name spelled old becomes new
astmRenameNames(fields, old, new) ==
  [i \in DOMAIN fields |->
     ExistingField([k \in DOMAIN fields[i].names |->
                      IF fields[i].names[k] = old THEN new ELSE fields[i].names[k]],
                   fields[i].type, fields[i].tag)]

\* part_011:44-58: every selector .old and every key old of a literal
astmRenameRefs(body, old, new) ==
  [j \in DOMAIN body |->
     IF body[j].e = "sel" /\ body[j].name = old
       THEN SelectorExpr(body[j].x, new)
     ELSE IF body[j].e = "lit"
       THEN CompositeLit(body[j].name,
                         [k \in DOMAIN body[j].keys |->
                            IF body[j].keys[k] = old THEN new ELSE body[j].keys[k]])
     ELSE body[j]]

\* part_011:8-61: the error returned and the file left
FieldRename(file, structName, old, new) ==
  LET at == astmStructAt(file, structName)
  IN IF at = 0 THEN [err |-> FALSE, file |-> file]
     ELSE IF ~HasFieldNamed(file.decls[at], old) THEN [err |-> FALSE, file |-> file]
     ELSE [err |-> FALSE,
           file |-> ParsedFile(file.pkg,
                      [i \in DOMAIN file.decls |->
                         Decl(file.decls[i].kind, file.decls[i].name, file.decls[i].recv,
                              IF i = at THEN astmRenameNames(file.decls[i].fields, old, new)
                                        ELSE file.decls[i].fields,
                              file.decls[i].params, file.decls[i].type,
                              astmRenameRefs(file.decls[i].body, old, new))])]

AstmFrame ==
  UNCHANGED <<fs, dirs, initialPackageName, target, pc, call, oldContent, newContent,
              fileExists, tempPath, ret, info, answer, pre, log, failed,
              objects, templates, tcall, objectsBefore,
              structFields, openStruct, modifierCalls,
              oldLines, newLines, diffOut,
              idents, astFiles, fileCall, identsBefore, astFilesBefore>>

AstmStructNames == {"S", "T"}
AstmOldNames == {"F", "G"}
AstmNewNames == {"G", "H"}

CodeFieldRename ==
  /\ code # <<>> /\ ncalls < MaxAstmCalls
  /\ \E structName \in AstmStructNames, old \in AstmOldNames, new \in AstmNewNames :
       LET out == FieldRename(code, structName, old, new)
       IN /\ codeBefore' = code
          /\ code' = out.file
          /\ astmCall' = [op |-> "FieldRename", args |-> <<structName, old, new>>,
                          err |-> out.err]
  /\ ncalls' = ncalls + 1
  /\ AstmFrame

\* func main() { var s S; s.F = 42 }, with a literal S{F: 1} or without
AstmMain(withLit) ==
  FuncNode("main", "", <<>>, "",
           <<SelectorExpr("s", "F")>> \o (IF withLit THEN <<CompositeLit("S", <<"F">>)>> ELSE <<>>))

\* the sources astm.Parse is given
AstmSources ==
  {ParsedFile("main", <<StructDecl("S", fields)>> \o <<AstmMain(withLit)>>) :
     fields \in {<<ExistingField(<<"F">>, "int", "")>>,
                 <<ExistingField(<<"F">>, "int", "json"), ExistingField(<<"G">>, "int", "")>>,
                 <<ExistingField(<<"F", "G">>, "int", "")>>},
     withLit \in BOOLEAN}

\* parse.go:9-16
InitAstm ==
  /\ target = "user.go"
  /\ fs = Storage(target, NoFile, NoFile)
  /\ initialPackageName = ""
  /\ dirs = DirsOf(fs)
  /\ Idle
  /\ NoFiles
  /\ NoDiff
  /\ NoTemplates
  /\ NoFileOpen
  /\ code \in AstmSources
  /\ codeBefore = code
  /\ astmCall = NoAstmCall

NextAstm == CodeFieldRename

SpecAstm == InitAstm /\ [][NextAstm]_vars

AstmStructBefore == astmStructAt(codeBefore, astmCall.args[1])

\* the call cannot be carried out: no struct, no field old, or a field new
AstmRefused ==
  \/ AstmStructBefore = 0
  \/ ~HasFieldNamed(codeBefore.decls[AstmStructBefore], astmCall.args[2])
  \/ HasFieldNamed(codeBefore.decls[AstmStructBefore], astmCall.args[3])

FieldRenameReturned == astmCall.op = "FieldRename"

\* C23: FieldRename(S, old, new) returns an error and leaves the tree as it
\* was when S does not exist, when S has no field old, or when S already has
\* a field new; otherwise it returns nil, S has the field new and not old,
\* and no selector .old is left.
C23_FieldRename ==
  FieldRenameReturned =>
    IF AstmRefused THEN astmCall.err /\ code = codeBefore
    ELSE /\ ~astmCall.err
         /\ HasFieldNamed(code.decls[AstmStructBefore], astmCall.args[3])
         /\ ~HasFieldNamed(code.decls[AstmStructBefore], astmCall.args[2])
         /\ \A i \in DOMAIN code.decls : \A j \in DOMAIN code.decls[i].body :
              code.decls[i].body[j].e = "sel" => code.decls[i].body[j].name # astmCall.args[2]
====
